---- MODULE Spec2Model ----
(***************************************************************************)
(* A model of the analytics engine of backend/app/services/analytics.py    *)
(* (class AnalyticsService) and of the subscription endpoint of            *)
(* backend/app/main.py (analytics_websocket).                              *)
(*                                                                         *)
(* The service is one object shared by several threads: the request        *)
(* handlers of the Flask application (app/chatbot.py: synchronous views,   *)
(* one thread per request), the event loop of the FastAPI application      *)
(* (app/main.py), and the daemon threads the constructor starts for the    *)
(* hourly cleanup and the 5-second broadcast.  Only track_chat_activity    *)
(* and cleanup_old_data take _update_lock; every other method runs         *)
(* unlocked.  The model therefore splits a method into the steps between   *)
(* which another thread can run:                                           *)
(*   - d[k] += n is a read of d[k] followed by a write of d[k];            *)
(*   - a lookup of a missing key of a defaultdict whose factory is a       *)
(*     Python lambda runs the factory first and stores the fresh value     *)
(*     afterwards (defdict_missing: call, then set item), so two threads   *)
(*     can both miss and the later store replaces the earlier object;      *)
(*   - obj.append(<expression with calls>) loads obj before the argument   *)
(*     is evaluated;                                                       *)
(*   - x = [e for e in lst if ...] builds the new list before storing it;  *)
(*   - a loop over dict.values() raises RuntimeError when the dict has     *)
(*     changed size since the loop began.                                  *)
(* A thread that holds a reference to a dict or list that has since been   *)
(* replaced in its container keeps writing to the replaced object: the     *)
(* model keeps one "live" flag per held reference and drops the writes of  *)
(* a reference that is no longer live.                                     *)
(*                                                                         *)
(* Time is counted in hours from Monday 2024-01-01 00:00 local time.       *)
(***************************************************************************)
EXTENDS Integers, Sequences, FiniteSets, TLC

VARIABLES
    \* ---- the Metric Store (AnalyticsService fields)
    chat_stats,       \* _chat_stats: scope -> chat record
    document_stats,   \* _document_stats: scope -> document record
    link_stats,       \* _link_stats: scope -> link record
    usage_stats,      \* _usage_stats
    update_lock,      \* _update_lock: "free" or the thread holding it
    now,              \* the wall clock, hours since 2024-01-01 00:00
    \* ---- threads calling track_chat_activity/document_upload/link_share
    wpc, wop, wtmp, wref,
    calls,            \* number of calls started (track_*, get_*, cleanup passes)
    completed,        \* kind -> scope -> number of track_* calls returned
    \* ---- threads calling get_*_statistics(chat_id)
    rpc, rop, robs, rlive,
    \* ---- the cleanup threads (_run_cleanup)
    kpc, kcut, kleft, ksize, kcur, ktmp, klive,
    \* ---- threads calling track_user_activity
    upc, uarg, unow, utmp,
    \* ---- the Subscriber Registry (AnalyticsService fields)
    websocket_clients,   \* _websocket_clients: set of channels
    client_topics,       \* _client_topics: channel -> set of topics
    \* ---- the /analytics endpoint, one handler coroutine per channel
    hpc, hconn, hmsg,
    msgs,                \* number of client messages received so far
    loop_owner,          \* the handler running on the server's event loop
    \* ---- _send_analytics_update, run by a handler or a broadcast thread
    spc, skey, spay, sread,
    sdata,               \* total_messages of the chatStats the routine has built
    \* ---- the _periodic_broadcast threads
    bpc, bleft, bcur, bstart, battempt, bfailed,
    bdata,               \* total_messages of the first chatStats delivered in the tick
    ticks,               \* number of broadcast ticks started so far
    \* ---- what each channel's client has received
    snapshots,           \* channel -> number of snapshot frames delivered
    \* ---- AnalyticsService() and the threads it starts
    ipc,                 \* the statement of the constructor to run next
    threads,             \* thread -> the task it runs ("none": not started)
    woke,                \* threads whose sleep of the current interval has elapsed
    ran,                 \* task -> runs of its loop body in the current interval
    periods              \* task -> intervals elapsed so far

storeVars == <<chat_stats, document_stats, link_stats, usage_stats, update_lock, now>>
writerVars == <<wpc, wop, wtmp, wref, calls, completed>>
readerVars == <<rpc, rop, robs, rlive>>
cleanerVars == <<kpc, kcut, kleft, ksize, kcur, ktmp, klive>>

usageThreadVars == <<upc, uarg, unow, utmp>>

\* what the store's writers, readers and cleanup never touch
registryVars ==
    <<websocket_clients, client_topics, hpc, hconn, hmsg, msgs, loop_owner,
      spc, skey, spay, sread, sdata, bpc, bleft, bcur, bstart, battempt, bfailed,
      bdata, ticks, snapshots>>

\* what only the constructor and the wake-ups of its threads touch
ctorVars == <<ipc, threads, woke, ran, periods>>

nonStoreVars == <<usageThreadVars, registryVars, ctorVars>>

vars == <<storeVars, writerVars, readerVars, cleanerVars, nonStoreVars>>

----------------------------------------------------------------------------
(* Bounds of the model *)

\* calls (track_*, get_*_statistics, cleanup passes) started in one behaviour
MaxCalls == 3
\* the clock stops advancing at this hour of the day
MaxTime == 1
\* client messages received by the /analytics handlers in one behaviour
MaxMsgs == 1
\* broadcast ticks started in one behaviour
MaxTicks == 2
\* retention windows that pass in one behaviour
MaxWindows == 1
\* sleep intervals of each periodic task that elapse in one behaviour
MaxPeriods == 2

(* Program constants *)

\* share_history keeps the 100 newest entries
ShareHistoryCap == 100
\* cleanup_old_data(days=30), in hours
RetentionHours == 720
\* "recent" entries are younger than 3600 seconds = 1 hour
RecentHours == 1

Scopes == {"c1", "c2"}
Writers == {"w1", "w2"}
Readers == {"r1"}
Cleaners == {"k1"}
Kinds == {"chat", "doc", "link"}
FileTypes == {"pdf"}
FileSizes == {1024}
Domains == {"a.org"}
Users == {"u1", "u2"}
Channels == {"a", "b"}
\* the broadcast threads modelled (the constructor starts two of them)
Broadcasters == {"b1"}
Runners == Channels \cup Broadcasters
NoChan == "none"
NoMsg == [type |-> "none", topics |-> <<>>, form |-> "list"]
StartHours == {0, 24, 168}
None == -1
NoOp == [kind |-> "none", scope |-> "none"]
NoRef == [chat |-> FALSE, sub |-> FALSE, lst |-> FALSE]
NoObs == [count |-> 0, list |-> <<>>]

----------------------------------------------------------------------------
(* Maps with lazily created keys (collections.defaultdict) *)

EmptyMap == [x \in {} |-> 0]

Put(f, k, v) == [x \in (DOMAIN f) \cup {k} |-> IF x = k THEN v ELSE f[x]]

Del(f, k) == [x \in (DOMAIN f) \ {k} |-> f[x]]

\* the values the three factories build (the lambdas of __init__)
\* a factory that builds a record with a count already in it
ChatNonZero ==
    [message_count |-> 1, last_activity |-> None, document_count |-> 0,
     link_count |-> 0, active_users |-> {}, message_history |-> <<>>]

ChatZero ==
    [message_count |-> 0, last_activity |-> None, document_count |-> 0,
     link_count |-> 0, active_users |-> {}, message_history |-> <<>>]

\* a factory that builds a document record with a size already in it
DocPrefilled ==
    [count |-> 0, total_size |-> 1, types |-> EmptyMap, upload_history |-> <<>>]

DocZero ==
    [count |-> 0, total_size |-> 0, types |-> EmptyMap, upload_history |-> <<>>]

LinkZero ==
    [count |-> 0, domains |-> EmptyMap, share_history |-> <<>>]

\* defaultdict(int)[k]
Count(m, k) == IF k \in DOMAIN m THEN m[k] ELSE 0

\* peak_hours has one slot per hour of the day
HoursPerDay == 24

UsageZero ==
    [daily_active |-> {}, weekly_active |-> {}, monthly_active |-> {},
     peak_hours |-> [h \in 0..(HoursPerDay - 1) |-> 0],
     concurrent_users |-> 0, response_times |-> <<>>, error_rates |-> EmptyMap]

(* datetime.now(), for a clock in hours since Monday 2024-01-01 00:00 *)

HourOf(t) == t % HoursPerDay

DayIndex(t) == t \div HoursPerDay

\* now.weekday(): 0 is Monday
WeekdayOf(t) == DayIndex(t) % 7

\* now.day: January has 31 days, February 2024 has 29
DayOfMonth(t) ==
    IF DayIndex(t) < 31 THEN DayIndex(t) + 1
    ELSE IF DayIndex(t) < 60 THEN DayIndex(t) - 30
    ELSE DayIndex(t) - 59

----------------------------------------------------------------------------
(* Pure helpers *)

RECURSIVE InsertDesc(_, _)
\* e placed after every entry that is not older than it (a stable sort)
InsertDesc(s, e) ==
    IF s = <<>> THEN <<e>>
    ELSE IF Head(s) >= e THEN <<Head(s)>> \o InsertDesc(Tail(s), e)
    ELSE <<e>> \o s

RECURSIVE SortDesc(_)
\* list.sort(key=timestamp, reverse=True): descending, equal keys keep their order
SortDesc(s) ==
    IF s = <<>> THEN <<>>
    ELSE InsertDesc(SortDesc(SubSeq(s, 1, Len(s) - 1)), s[Len(s)])

IsSortedDesc(s) == \A i \in 1..(Len(s) - 1) : s[i] >= s[i + 1]

\* [e for e in s if e > cutoff]
NewerThan(s, cutoff) == SelectSeq(s, LAMBDA e : e > cutoff)

\* share_history[:100]
Truncate(s) == IF Len(s) > ShareHistoryCap THEN SubSeq(s, 1, ShareHistoryCap) ELSE s

----------------------------------------------------------------------------
(* The state after AnalyticsService() *)

\* the store, the request threads and the cleanup thread
InitService ==
    /\ chat_stats = EmptyMap
    /\ document_stats = EmptyMap
    /\ link_stats = EmptyMap
    /\ usage_stats = UsageZero
    /\ update_lock = "free"
    /\ wpc = [t \in Writers |-> "idle"]
    /\ wop = [t \in Writers |-> NoOp]
    /\ wtmp = [t \in Writers |-> 0]
    /\ wref = [t \in Writers |-> NoRef]
    /\ calls = 0
    /\ completed = [k \in Kinds |-> [s \in Scopes |-> 0]]
    /\ rpc = [r \in Readers |-> "idle"]
    /\ rop = [r \in Readers |-> NoOp]
    /\ robs = [r \in Readers |-> NoObs]
    /\ rlive = [r \in Readers |-> FALSE]
    /\ kpc = [k \in Cleaners |-> "sleep"]
    /\ kcut = [k \in Cleaners |-> 0]
    /\ kleft = [k \in Cleaners |-> {}]
    /\ ksize = [k \in Cleaners |-> 0]
    /\ kcur = [k \in Cleaners |-> "none"]
    /\ ktmp = [k \in Cleaners |-> <<>>]
    /\ klive = [k \in Cleaners |-> FALSE]
    /\ upc = [t \in Writers |-> "idle"]
    /\ uarg = [t \in Writers |-> "none"]
    /\ unow = [t \in Writers |-> 0]
    /\ utmp = [t \in Writers |-> 0]

\* no connection yet
InitRegistry ==
    /\ websocket_clients = {}
    /\ client_topics = EmptyMap
    /\ hpc = [c \in Channels |-> "new"]
    /\ hconn = [c \in Channels |-> "new"]
    /\ hmsg = [c \in Channels |-> NoMsg]
    /\ msgs = 0
    /\ loop_owner = NoChan
    /\ spc = [r \in Runners |-> "idle"]
    /\ skey = [r \in Runners |-> 0]
    /\ spay = [r \in Runners |-> {}]
    /\ sread = [r \in Runners |-> {}]
    /\ sdata = [r \in Runners |-> 0]
    /\ bpc = [b \in Broadcasters |-> "sleep"]
    /\ bdata = [b \in Broadcasters |-> None]
    /\ bleft = [b \in Broadcasters |-> {}]
    /\ bcur = [b \in Broadcasters |-> NoChan]
    /\ bstart = [b \in Broadcasters |-> {}]
    /\ battempt = [b \in Broadcasters |-> {}]
    /\ bfailed = [b \in Broadcasters |-> {}]
    /\ ticks = 0
    /\ snapshots = [c \in Channels |-> 0]

\* the identities of the threads a constructor call can start, and their tasks
ThreadIds == 1..4
Tasks == {"cleanup", "broadcast"}

Running(task) == {t \in ThreadIds : threads[t] = task}

\* threading.Thread(target=..., daemon=True).start(): one more thread runs the task
Started(task) ==
    LET t == CHOOSE x \in ThreadIds :
                 threads[x] = "none" /\ \A y \in ThreadIds : threads[y] = "none" => x <= y
    IN [threads EXCEPT ![t] = task]

\* the statements of __init__ that start threads, in the order they run:
\* the two at the end of _reset_analytics_data, then the two of __init__ itself
CtorOrder ==
    <<[pc |-> "reset_cleanup", task |-> "cleanup"],
      [pc |-> "reset_broadcast", task |-> "broadcast"],
      [pc |-> "init_cleanup", task |-> "cleanup"],
      [pc |-> "init_broadcast", task |-> "broadcast"]>>

RECURSIVE StartedAll(_, _)
StartedAll(order, th) ==
    IF order = <<>> THEN th
    ELSE LET t == CHOOSE x \in ThreadIds :
                     th[x] = "none" /\ \A y \in ThreadIds : th[y] = "none" => x <= y
         IN StartedAll(Tail(order), [th EXCEPT ![t] = Head(order).task])

\* AnalyticsService() has returned: the threads it started sleep
InitThreads ==
    /\ ipc = "done"
    /\ threads = StartedAll(CtorOrder, [t \in ThreadIds |-> "none"])
    /\ woke = {}
    /\ ran = [k \in Tasks |-> 0]
    /\ periods = [k \in Tasks |-> 0]

InitBase ==
    /\ InitService
    /\ InitRegistry
    /\ InitThreads

\* the service starts at hour 0
Init == InitBase /\ now = 0

----------------------------------------------------------------------------
(* References that stop being live when an object is replaced.  `self` is  *)
(* the thread that stores the new object (it keeps a live reference).      *)

\* _chat_stats[s] is replaced or deleted
WrefChatReplaced(s, self) ==
    [t \in Writers |->
        IF t = self THEN [wref[t] EXCEPT !.chat = TRUE]
        ELSE IF wop[t].scope = s THEN [wref[t] EXCEPT !.chat = FALSE]
        ELSE wref[t]]

\* _document_stats[s] (kind "doc") or _link_stats[s] (kind "link") is replaced or deleted
WrefSubReplaced(kind, s, self) ==
    [t \in Writers |->
        IF t = self THEN [wref[t] EXCEPT !.sub = TRUE]
        ELSE IF wop[t].scope = s /\ wop[t].kind = kind
             THEN [wref[t] EXCEPT !.sub = FALSE, !.lst = FALSE]
        ELSE wref[t]]

\* the history list of _document_stats[s] or _link_stats[s] is replaced
WrefListReplaced(kind, s) ==
    [t \in Writers |->
        IF wop[t].scope = s /\ wop[t].kind = kind
        THEN [wref[t] EXCEPT !.lst = FALSE] ELSE wref[t]]

\* the history list a reader of (kind, s) got from its copy is replaced in the store
RliveReplaced(kind, s) ==
    [r \in Readers |->
        IF rop[r].kind = kind /\ rop[r].scope = s THEN FALSE ELSE rlive[r]]

\* ... and the reader keeps the replaced list, whose content is `old`
RobsReplaced(kind, s, old) ==
    [r \in Readers |->
        IF rop[r].kind = kind /\ rop[r].scope = s /\ rlive[r]
        THEN [robs[r] EXCEPT !.list = old] ELSE robs[r]]

\* the cleanup thread's reference to the record it is pruning
KliveReplaced(kind, s) ==
    [k \in Cleaners |->
        IF kcur[k] = s /\ ((kind = "doc" /\ kpc[k] = "doc_store")
                          \/ (kind = "link" /\ kpc[k] = "link_store"))
        THEN FALSE ELSE klive[k]]

----------------------------------------------------------------------------
(* Writer threads: one track_* call at a time each *)

WGoto(t, p) == wpc' = [wpc EXCEPT ![t] = p]

FirstPc(kind) ==
    CASE kind = "chat" -> "ca_lock"
      [] kind = "doc" -> "du_getc"
      [] kind = "link" -> "ls_getc"

\* a request handler calls track_chat_activity, track_document_upload or track_link_share
StartCall(t) ==
    /\ wpc[t] = "idle"
    /\ upc[t] = "idle"
    /\ calls < MaxCalls
    /\ \E k \in Kinds, s \in Scopes :
          /\ wop' = [wop EXCEPT ![t] = [kind |-> k, scope |-> s]]
          /\ WGoto(t, FirstPc(k))
    /\ calls' = calls + 1
    /\ UNCHANGED <<storeVars, wtmp, wref, completed, readerVars, cleanerVars>>
    /\ UNCHANGED nonStoreVars

\* a request handler calls track_chat_activity(chat_id, user_id=user_id)
StartChat(t) ==
    /\ wpc[t] = "idle"
    /\ upc[t] = "idle"
    /\ calls < MaxCalls
    /\ \E s \in Scopes, u \in Users :
          /\ wop' = [wop EXCEPT ![t] = [kind |-> "chat", scope |-> s, user |-> u]]
          /\ WGoto(t, FirstPc("chat"))
    /\ calls' = calls + 1
    /\ UNCHANGED <<storeVars, wtmp, wref, completed, readerVars, cleanerVars>>
    /\ UNCHANGED nonStoreVars

\* `if user_id:` of track_chat_activity: the users the call adds (user_id is
\* None when the caller passes none)
UserOf(op) == IF "user" \in DOMAIN op THEN {op.user} ELSE {}

\* a request thread enters track_document_upload or track_link_share for the
\* one conversation that uploads while users are being tracked
StartUpload(t) ==
    /\ wpc[t] = "idle"
    /\ upc[t] = "idle"
    /\ calls < MaxCalls
    /\ \E k \in {"doc", "link"} :
          /\ wop' = [wop EXCEPT ![t] = [kind |-> k, scope |-> "c1"]]
          /\ WGoto(t, FirstPc(k))
    /\ calls' = calls + 1
    /\ UNCHANGED <<storeVars, wtmp, wref, completed, readerVars, cleanerVars>>
    /\ UNCHANGED nonStoreVars

\* the call returns
Return(t) ==
    /\ wpc' = [wpc EXCEPT ![t] = "idle"]
    /\ wop' = [wop EXCEPT ![t] = NoOp]
    /\ wref' = [wref EXCEPT ![t] = NoRef]
    /\ wtmp' = [wtmp EXCEPT ![t] = 0]
    /\ completed' = [completed EXCEPT ![wop[t].kind][wop[t].scope] = @ + 1]

\* chat_stats = self._chat_stats[chat_id], the key present: pc p -> hit; absent: -> miss
\* (the factory runs; the fresh dict is stored by NewChat)
GetChat(t, p, hit, miss) ==
    /\ wpc[t] = p
    /\ IF wop[t].scope \in DOMAIN chat_stats
       THEN /\ WGoto(t, hit)
            /\ wref' = [wref EXCEPT ![t].chat = TRUE]
       ELSE /\ WGoto(t, miss)
            /\ UNCHANGED wref
    /\ UNCHANGED <<storeVars, wop, wtmp, calls, completed, readerVars, cleanerVars>>
    /\ UNCHANGED nonStoreVars

\* defdict_missing stores the fresh dict under the key, whatever is there by now
NewChat(t, p, next) ==
    /\ wpc[t] = p
    /\ LET s == wop[t].scope
           old == IF s \in DOMAIN chat_stats THEN chat_stats[s].message_history ELSE <<>>
       IN /\ chat_stats' = Put(chat_stats, s, ChatZero)
          /\ wref' = WrefChatReplaced(s, t)
          /\ rlive' = RliveReplaced("chat", s)
          /\ robs' = RobsReplaced("chat", s, old)
    /\ WGoto(t, next)
    /\ UNCHANGED <<document_stats, link_stats, usage_stats, update_lock, now,
                   wop, wtmp, calls, completed, rpc, rop, cleanerVars>>
    /\ UNCHANGED nonStoreVars

(* track_chat_activity(chat_id, message_count=1) *)

\* with self._update_lock:
CA_lock(t) ==
    /\ wpc[t] = "ca_lock"
    /\ update_lock = "free"
    /\ update_lock' = t
    /\ WGoto(t, "ca_get")
    /\ UNCHANGED <<chat_stats, document_stats, link_stats, usage_stats, now,
                   wop, wtmp, wref, calls, completed, readerVars, cleanerVars>>
    /\ UNCHANGED nonStoreVars

CA_get(t) == GetChat(t, "ca_get", "ca_read", "ca_new")

CA_new(t) == NewChat(t, "ca_new", "ca_read")

\* stats['message_count'] += message_count: the read
CA_read(t) ==
    /\ wpc[t] = "ca_read"
    /\ wtmp' = [wtmp EXCEPT ![t] =
                  IF wref[t].chat THEN chat_stats[wop[t].scope].message_count ELSE 0]
    /\ WGoto(t, "ca_write")
    /\ UNCHANGED <<storeVars, wop, wref, calls, completed, readerVars, cleanerVars>>
    /\ UNCHANGED nonStoreVars

\* ... the write, stats['last_activity'] = datetime.now() and
\* if user_id: stats['active_users'].add(user_id)
CA_write(t) ==
    /\ wpc[t] = "ca_write"
    /\ chat_stats' =
          IF wref[t].chat
          THEN [chat_stats EXCEPT ![wop[t].scope].message_count = wtmp[t] + 1,
                                  ![wop[t].scope].last_activity = now,
                                  ![wop[t].scope].active_users = @ \cup UserOf(wop[t])]
          ELSE chat_stats
    /\ WGoto(t, "ca_hist")
    /\ UNCHANGED <<document_stats, link_stats, usage_stats, update_lock, now,
                   wop, wtmp, wref, calls, completed, readerVars, cleanerVars>>
    /\ UNCHANGED nonStoreVars

\* stats['message_history'].append({...}); the lock is released; return
CA_hist(t) ==
    /\ wpc[t] = "ca_hist"
    /\ chat_stats' =
          IF wref[t].chat
          THEN [chat_stats EXCEPT ![wop[t].scope].message_history = Append(@, now)]
          ELSE chat_stats
    /\ update_lock' = "free"
    /\ Return(t)
    /\ UNCHANGED <<document_stats, link_stats, usage_stats, now, calls,
                   readerVars, cleanerVars>>
    /\ UNCHANGED nonStoreVars

track_chat_activity(t) ==
    \/ CA_lock(t) \/ CA_get(t) \/ CA_new(t) \/ CA_read(t) \/ CA_write(t) \/ CA_hist(t)

\* self._document_stats[chat_id] / self._link_stats[chat_id], as GetChat
GetSub(t, p, hit, miss) ==
    /\ wpc[t] = p
    /\ IF wop[t].scope \in
            DOMAIN (IF wop[t].kind = "doc" THEN document_stats ELSE link_stats)
       THEN /\ WGoto(t, hit)
            /\ wref' = [wref EXCEPT ![t].sub = TRUE]
       ELSE /\ WGoto(t, miss)
            /\ UNCHANGED wref
    /\ UNCHANGED <<storeVars, wop, wtmp, calls, completed, readerVars, cleanerVars>>
    /\ UNCHANGED nonStoreVars

\* the fresh document record is stored under the key
NewDoc(t, p, next) ==
    /\ wpc[t] = p
    /\ LET s == wop[t].scope
           old == IF s \in DOMAIN document_stats
                  THEN document_stats[s].upload_history ELSE <<>>
       IN /\ document_stats' = Put(document_stats, s, DocZero)
          /\ wref' = WrefSubReplaced("doc", s, t)
          /\ rlive' = RliveReplaced("doc", s)
          /\ robs' = RobsReplaced("doc", s, old)
          /\ klive' = KliveReplaced("doc", s)
    /\ WGoto(t, next)
    /\ UNCHANGED <<chat_stats, link_stats, usage_stats, update_lock, now,
                   wop, wtmp, calls, completed, rpc, rop,
                   kpc, kcut, kleft, ksize, kcur, ktmp>>
    /\ UNCHANGED nonStoreVars

\* the fresh link record is stored under the key
NewLink(t, p, next) ==
    /\ wpc[t] = p
    /\ LET s == wop[t].scope
           old == IF s \in DOMAIN link_stats
                  THEN link_stats[s].share_history ELSE <<>>
       IN /\ link_stats' = Put(link_stats, s, LinkZero)
          /\ wref' = WrefSubReplaced("link", s, t)
          /\ rlive' = RliveReplaced("link", s)
          /\ robs' = RobsReplaced("link", s, old)
          /\ klive' = KliveReplaced("link", s)
    /\ WGoto(t, next)
    /\ UNCHANGED <<chat_stats, document_stats, usage_stats, update_lock, now,
                   wop, wtmp, calls, completed, rpc, rop,
                   kpc, kcut, kleft, ksize, kcur, ktmp>>
    /\ UNCHANGED nonStoreVars

\* the read of d[k] in d[k] += n, through the thread's reference to d
ReadField(t, p, next, live, value) ==
    /\ wpc[t] = p
    /\ wtmp' = [wtmp EXCEPT ![t] = IF live THEN value ELSE 0]
    /\ WGoto(t, next)
    /\ UNCHANGED <<storeVars, wop, wref, calls, completed, readerVars, cleanerVars>>
    /\ UNCHANGED nonStoreVars

(* track_document_upload(chat_id, file_type, file_size) *)

DU_getc(t) == GetChat(t, "du_getc", "du_getd", "du_newc")

DU_newc(t) == NewChat(t, "du_newc", "du_getd")

DU_getd(t) == GetSub(t, "du_getd", "du_dc_read", "du_newd")

DU_newd(t) == NewDoc(t, "du_newd", "du_dc_read")

\* chat_stats['document_count'] += 1
DU_dc_read(t) ==
    ReadField(t, "du_dc_read", "du_dc_write", wref[t].chat,
              chat_stats[wop[t].scope].document_count)

DU_dc_write(t) ==
    /\ wpc[t] = "du_dc_write"
    /\ chat_stats' =
          IF wref[t].chat
          THEN [chat_stats EXCEPT ![wop[t].scope].document_count = wtmp[t] + 1]
          ELSE chat_stats
    /\ WGoto(t, "du_c_read")
    /\ UNCHANGED <<document_stats, link_stats, usage_stats, update_lock, now,
                   wop, wtmp, wref, calls, completed, readerVars, cleanerVars>>
    /\ UNCHANGED nonStoreVars

\* doc_stats['count'] += 1
DU_c_read(t) ==
    ReadField(t, "du_c_read", "du_c_write", wref[t].sub,
              document_stats[wop[t].scope].count)

DU_c_write(t) ==
    /\ wpc[t] = "du_c_write"
    /\ document_stats' =
          IF wref[t].sub
          THEN [document_stats EXCEPT ![wop[t].scope].count = wtmp[t] + 1]
          ELSE document_stats
    /\ WGoto(t, "du_size")
    /\ UNCHANGED <<chat_stats, link_stats, usage_stats, update_lock, now,
                   wop, wtmp, wref, calls, completed, readerVars, cleanerVars>>
    /\ UNCHANGED nonStoreVars

\* doc_stats['total_size'] += file_size; doc_stats['types'][file_type] += 1;
\* then doc_stats['upload_history'] is loaded for the append
DU_size(t) ==
    /\ wpc[t] = "du_size"
    /\ \E ft \in FileTypes, fs \in FileSizes :
         document_stats' =
           IF wref[t].sub
           THEN [document_stats EXCEPT
                   ![wop[t].scope].total_size = @ + fs,
                   ![wop[t].scope].types = Put(@, ft, Count(@, ft) + 1)]
           ELSE document_stats
    /\ wref' = [wref EXCEPT ![t].lst = wref[t].sub]
    /\ WGoto(t, "du_append")
    /\ UNCHANGED <<chat_stats, link_stats, usage_stats, update_lock, now,
                   wop, wtmp, calls, completed, readerVars, cleanerVars>>
    /\ UNCHANGED nonStoreVars

\* .append({..., 'timestamp': datetime.now(), ...}) on the list loaded; return
DU_append(t) ==
    /\ wpc[t] = "du_append"
    /\ document_stats' =
          IF wref[t].lst
          THEN [document_stats EXCEPT ![wop[t].scope].upload_history = Append(@, now)]
          ELSE document_stats
    /\ Return(t)
    /\ UNCHANGED <<chat_stats, link_stats, usage_stats, update_lock, now, calls,
                   readerVars, cleanerVars>>
    /\ UNCHANGED nonStoreVars

track_document_upload(t) ==
    \/ DU_getc(t) \/ DU_newc(t) \/ DU_getd(t) \/ DU_newd(t)
    \/ DU_dc_read(t) \/ DU_dc_write(t) \/ DU_c_read(t) \/ DU_c_write(t)
    \/ DU_size(t) \/ DU_append(t)

(* track_link_share(chat_id, domain) *)

LS_getc(t) == GetChat(t, "ls_getc", "ls_getl", "ls_newc")

LS_newc(t) == NewChat(t, "ls_newc", "ls_getl")

LS_getl(t) == GetSub(t, "ls_getl", "ls_lc_read", "ls_newl")

LS_newl(t) == NewLink(t, "ls_newl", "ls_lc_read")

\* chat_stats['link_count'] += 1
LS_lc_read(t) ==
    ReadField(t, "ls_lc_read", "ls_lc_write", wref[t].chat,
              chat_stats[wop[t].scope].link_count)

LS_lc_write(t) ==
    /\ wpc[t] = "ls_lc_write"
    /\ chat_stats' =
          IF wref[t].chat
          THEN [chat_stats EXCEPT ![wop[t].scope].link_count = wtmp[t] + 1]
          ELSE chat_stats
    /\ WGoto(t, "ls_c_read")
    /\ UNCHANGED <<document_stats, link_stats, usage_stats, update_lock, now,
                   wop, wtmp, wref, calls, completed, readerVars, cleanerVars>>
    /\ UNCHANGED nonStoreVars

\* link_stats['count'] += 1
LS_c_read(t) ==
    ReadField(t, "ls_c_read", "ls_c_write", wref[t].sub,
              link_stats[wop[t].scope].count)

\* ... the write; link_stats['domains'][domain] += 1; share_history is loaded
LS_c_write(t) ==
    /\ wpc[t] = "ls_c_write"
    /\ \E d \in Domains :
         link_stats' =
           IF wref[t].sub
           THEN [link_stats EXCEPT
                   ![wop[t].scope].count = wtmp[t] + 1,
                   ![wop[t].scope].domains = Put(@, d, Count(@, d) + 1)]
           ELSE link_stats
    /\ wref' = [wref EXCEPT ![t].lst = wref[t].sub]
    /\ WGoto(t, "ls_append")
    /\ UNCHANGED <<chat_stats, document_stats, usage_stats, update_lock, now,
                   wop, wtmp, calls, completed, readerVars, cleanerVars>>
    /\ UNCHANGED nonStoreVars

\* .append({..., 'timestamp': datetime.now(), ...}) on the list loaded
LS_append(t) ==
    /\ wpc[t] = "ls_append"
    /\ link_stats' =
          IF wref[t].lst
          THEN [link_stats EXCEPT ![wop[t].scope].share_history = Append(@, now)]
          ELSE link_stats
    /\ WGoto(t, "ls_sort")
    /\ UNCHANGED <<chat_stats, document_stats, usage_stats, update_lock, now,
                   wop, wtmp, wref, calls, completed, readerVars, cleanerVars>>
    /\ UNCHANGED nonStoreVars

\* link_stats['share_history'].sort(key=timestamp, reverse=True): the list the
\* record holds now, sorted in place
LS_sort(t) ==
    /\ wpc[t] = "ls_sort"
    /\ link_stats' =
          IF wref[t].sub
          THEN [link_stats EXCEPT ![wop[t].scope].share_history = SortDesc(@)]
          ELSE link_stats
    /\ WGoto(t, "ls_cap")
    /\ UNCHANGED <<chat_stats, document_stats, usage_stats, update_lock, now,
                   wop, wtmp, wref, calls, completed, readerVars, cleanerVars>>
    /\ UNCHANGED nonStoreVars

\* if len(share_history) > 100: share_history = share_history[:100]; return
LS_cap(t) ==
    /\ wpc[t] = "ls_cap"
    /\ LET s == wop[t].scope
           cut == wref[t].sub /\ Len(link_stats[s].share_history) > ShareHistoryCap
       IN /\ link_stats' =
                IF cut
                THEN [link_stats EXCEPT ![s].share_history = Truncate(@)]
                ELSE link_stats
          /\ rlive' = IF cut THEN RliveReplaced("link", s) ELSE rlive
          /\ robs' = IF cut THEN RobsReplaced("link", s, link_stats[s].share_history)
                      ELSE robs
          /\ wpc' = [wpc EXCEPT ![t] = "idle"]
          /\ wop' = [wop EXCEPT ![t] = NoOp]
          /\ wtmp' = [wtmp EXCEPT ![t] = 0]
          /\ completed' = [completed EXCEPT ![wop[t].kind][s] = @ + 1]
          /\ wref' = [u \in Writers |->
                        IF u = t THEN NoRef
                        ELSE IF cut THEN WrefListReplaced("link", s)[u]
                        ELSE wref[u]]
    /\ UNCHANGED <<chat_stats, document_stats, usage_stats, update_lock, now, calls,
                   rpc, rop, cleanerVars>>
    /\ UNCHANGED nonStoreVars

track_link_share(t) ==
    \/ LS_getc(t) \/ LS_newc(t) \/ LS_getl(t) \/ LS_newl(t)
    \/ LS_lc_read(t) \/ LS_lc_write(t) \/ LS_c_read(t) \/ LS_c_write(t)
    \/ LS_append(t) \/ LS_sort(t) \/ LS_cap(t)

----------------------------------------------------------------------------
(* Reader threads: get_chat_statistics(chat_id), get_document_statistics(chat_id), *)
(* get_link_statistics(chat_id).  None of them takes the lock.                     *)

StoreOf(kind) ==
    CASE kind = "chat" -> chat_stats
      [] kind = "doc" -> document_stats
      [] kind = "link" -> link_stats

\* the counter and the history list of a record of the given kind
CountOf(kind, rec) ==
    CASE kind = "chat" -> rec.message_count
      [] kind = "doc" -> rec.count
      [] kind = "link" -> rec.count

HistoryOf(kind, rec) ==
    CASE kind = "chat" -> rec.message_history
      [] kind = "doc" -> rec.upload_history
      [] kind = "link" -> rec.share_history

\* the record the factory of the store of the given kind builds
ZeroOf(kind) ==
    CASE kind = "chat" -> ChatZero
      [] kind = "doc" -> DocZero
      [] kind = "link" -> LinkZero

RD_start(r) ==
    /\ rpc[r] = "idle"
    /\ calls < MaxCalls
    /\ calls' = calls + 1
    /\ \E k \in Kinds, s \in Scopes : rop' = [rop EXCEPT ![r] = [kind |-> k, scope |-> s]]
    /\ rpc' = [rpc EXCEPT ![r] = "rd_get"]
    /\ UNCHANGED <<storeVars, wpc, wop, wtmp, wref, completed, robs, rlive, cleanerVars>>
    /\ UNCHANGED nonStoreVars

\* stats = dict(self._X_stats[chat_id]), the key present: a shallow copy, which
\* holds the counter's value and a reference to the history list
RD_get(r) ==
    /\ rpc[r] = "rd_get"
    /\ LET k == rop[r].kind
           s == rop[r].scope
       IN IF s \in DOMAIN StoreOf(k)
          THEN /\ robs' = [robs EXCEPT ![r] =
                             [count |-> CountOf(k, StoreOf(k)[s]),
                              list |-> HistoryOf(k, StoreOf(k)[s])]]
               /\ rlive' = [rlive EXCEPT ![r] = TRUE]
               /\ rpc' = [rpc EXCEPT ![r] = "rd_hist"]
          ELSE /\ rpc' = [rpc EXCEPT ![r] = "rd_new"]
               /\ UNCHANGED <<robs, rlive>>
    /\ UNCHANGED <<storeVars, writerVars, rop, cleanerVars>>
    /\ UNCHANGED nonStoreVars

\* the key absent: the fresh record the factory built is stored under it, then copied
RD_new(r) ==
    /\ rpc[r] = "rd_new"
    /\ LET k == rop[r].kind
           s == rop[r].scope
           old == IF s \in DOMAIN StoreOf(k) THEN HistoryOf(k, StoreOf(k)[s]) ELSE <<>>
       IN /\ chat_stats' = IF k = "chat" THEN Put(chat_stats, s, ChatZero) ELSE chat_stats
          /\ document_stats' =
                IF k = "doc" THEN Put(document_stats, s, DocZero) ELSE document_stats
          /\ link_stats' = IF k = "link" THEN Put(link_stats, s, LinkZero) ELSE link_stats
          /\ wref' = IF k = "chat" THEN WrefChatReplaced(s, r) ELSE WrefSubReplaced(k, s, r)
          /\ klive' = KliveReplaced(k, s)
          /\ rlive' = [RliveReplaced(k, s) EXCEPT ![r] = TRUE]
          /\ robs' = [RobsReplaced(k, s, old) EXCEPT ![r] =
                         [count |-> CountOf(k, ZeroOf(k)), list |-> HistoryOf(k, ZeroOf(k))]]
    /\ rpc' = [rpc EXCEPT ![r] = "rd_hist"]
    /\ UNCHANGED <<usage_stats, update_lock, now, wpc, wop, wtmp, calls, completed,
                   rop, kpc, kcut, kleft, ksize, kcur, ktmp>>
    /\ UNCHANGED nonStoreVars

\* stats['recent_...'] = [e for e in stats['..._history'] if ...]: the list is read
\* now, through the reference the copy holds.  robs[r] is then what the call returns.
RD_hist(r) ==
    /\ rpc[r] = "rd_hist"
    /\ LET k == rop[r].kind
           s == rop[r].scope
       IN robs' = [robs EXCEPT ![r].list =
                     IF rlive[r] THEN HistoryOf(k, StoreOf(k)[s]) ELSE @]
    /\ rpc' = [rpc EXCEPT ![r] = "rd_ret"]
    /\ rlive' = [rlive EXCEPT ![r] = FALSE]
    /\ UNCHANGED <<storeVars, writerVars, rop, cleanerVars>>
    /\ UNCHANGED nonStoreVars

\* return stats
RD_ret(r) ==
    /\ rpc[r] = "rd_ret"
    /\ rpc' = [rpc EXCEPT ![r] = "idle"]
    /\ rop' = [rop EXCEPT ![r] = NoOp]
    /\ robs' = [robs EXCEPT ![r] = NoObs]
    /\ UNCHANGED <<storeVars, writerVars, rlive, cleanerVars>>
    /\ UNCHANGED nonStoreVars

get_statistics(r) == RD_start(r) \/ RD_get(r) \/ RD_new(r) \/ RD_hist(r) \/ RD_ret(r)

----------------------------------------------------------------------------
(* The cleanup thread: _periodic_cleanup sleeps an hour, then cleanup_old_data() *)

KGoto(k, p) == kpc' = [kpc EXCEPT ![k] = p]

\* the scopes the chat loop of cleanup_old_data deletes
Evicted(cutoff) ==
    {s \in DOMAIN chat_stats :
        chat_stats[s].last_activity # None /\ chat_stats[s].last_activity < cutoff}

\* with self._update_lock: cutoff_date = datetime.now() - timedelta(days=days)
K_lock(k) ==
    /\ kpc[k] = "sleep"
    /\ calls < MaxCalls
    /\ calls' = calls + 1
    /\ update_lock = "free"
    /\ update_lock' = k
    /\ kcut' = [kcut EXCEPT ![k] = now - RetentionHours]
    /\ KGoto(k, "chat")
    /\ UNCHANGED <<chat_stats, document_stats, link_stats, usage_stats, now,
                   wpc, wop, wtmp, wref, completed, readerVars,
                   kleft, ksize, kcur, ktmp, klive>>
    /\ UNCHANGED nonStoreVars

\* for chat_id, stats in list(self._chat_stats.items()): evict the scope, or
\* replace its message_history by the entries newer than the cutoff.  Then the
\* loop over self._document_stats.values() begins.
K_chat(k) ==
    /\ kpc[k] = "chat"
    /\ LET gone == Evicted(kcut[k])
           keep == (DOMAIN chat_stats) \ gone
       IN /\ chat_stats' =
                [s \in keep |->
                   [chat_stats[s] EXCEPT !.message_history = NewerThan(@, kcut[k])]]
          /\ document_stats' = [s \in (DOMAIN document_stats) \ gone |-> document_stats[s]]
          /\ link_stats' = [s \in (DOMAIN link_stats) \ gone |-> link_stats[s]]
          /\ wref' = [t \in Writers |-> IF wop[t].scope \in gone THEN NoRef ELSE wref[t]]
          /\ rlive' = [r \in Readers |->
                          IF rop[r].kind = "chat" \/ rop[r].scope \in gone
                          THEN FALSE ELSE rlive[r]]
          /\ robs' = [r \in Readers |->
                         IF rlive[r] /\ (rop[r].kind = "chat" \/ rop[r].scope \in gone)
                         THEN [robs[r] EXCEPT !.list =
                                 HistoryOf(rop[r].kind, StoreOf(rop[r].kind)[rop[r].scope])]
                         ELSE robs[r]]
          /\ kleft' = [kleft EXCEPT ![k] = DOMAIN document_stats']
          /\ ksize' = [ksize EXCEPT ![k] = Cardinality(DOMAIN document_stats')]
    /\ KGoto(k, "doc_next")
    /\ UNCHANGED <<usage_stats, update_lock, now, wpc, wop, wtmp, calls, completed,
                   rpc, rop, kcut, kcur, ktmp, klive>>
    /\ UNCHANGED nonStoreVars

\* a task whose thread ends with the first exception of a pass
TaskEnds == "dead"

\* where _periodic_cleanup is after `except Exception`: the error is logged,
\* asyncio.sleep(60) is awaited and the while loop is back at asyncio.sleep(3600)
AfterPassError == "sleep"

\* RuntimeError: dictionary changed size during iteration.  It leaves
\* cleanup_old_data (releasing the lock); _periodic_cleanup logs it and sleeps.
K_raise(k) ==
    /\ update_lock' = "free"
    /\ KGoto(k, AfterPassError)
    /\ kleft' = [kleft EXCEPT ![k] = {}]
    /\ ksize' = [ksize EXCEPT ![k] = 0]
    /\ kcur' = [kcur EXCEPT ![k] = "none"]
    /\ ktmp' = [ktmp EXCEPT ![k] = <<>>]
    /\ klive' = [klive EXCEPT ![k] = FALSE]
    /\ UNCHANGED <<chat_stats, document_stats, link_stats, usage_stats, now,
                   writerVars, readerVars, kcut>>

\* for stats in self._document_stats.values(): the next record, and the right-hand
\* side [upload for upload in stats['upload_history'] if upload['timestamp'] > cutoff_date]
K_doc_next(k) ==
    /\ kpc[k] = "doc_next"
    /\ IF Cardinality(DOMAIN document_stats) # ksize[k]
       THEN K_raise(k)
       ELSE IF kleft[k] = {}
       THEN /\ kleft' = [kleft EXCEPT ![k] = DOMAIN link_stats]
            /\ ksize' = [ksize EXCEPT ![k] = Cardinality(DOMAIN link_stats)]
            /\ KGoto(k, "link_next")
            /\ UNCHANGED <<storeVars, writerVars, readerVars, kcut, kcur, ktmp, klive>>
       ELSE \E s \in kleft[k] :
              /\ kcur' = [kcur EXCEPT ![k] = s]
              /\ ktmp' = [ktmp EXCEPT ![k] =
                            NewerThan(document_stats[s].upload_history, kcut[k])]
              /\ klive' = [klive EXCEPT ![k] = TRUE]
              /\ kleft' = [kleft EXCEPT ![k] = @ \ {s}]
              /\ KGoto(k, "doc_store")
              /\ UNCHANGED <<storeVars, writerVars, readerVars, kcut, ksize>>
    /\ UNCHANGED nonStoreVars

\* stats['upload_history'] = <the list built>
K_doc_store(k) ==
    /\ kpc[k] = "doc_store"
    /\ LET s == kcur[k]
       IN IF klive[k]
          THEN /\ document_stats' = [document_stats EXCEPT ![s].upload_history = ktmp[k]]
               /\ wref' = WrefListReplaced("doc", s)
               /\ rlive' = RliveReplaced("doc", s)
               /\ robs' = RobsReplaced("doc", s, document_stats[s].upload_history)
          ELSE UNCHANGED <<document_stats, wref, rlive, robs>>
    /\ KGoto(k, "doc_next")
    /\ kcur' = [kcur EXCEPT ![k] = "none"]
    /\ ktmp' = [ktmp EXCEPT ![k] = <<>>]
    /\ klive' = [klive EXCEPT ![k] = FALSE]
    /\ UNCHANGED <<chat_stats, link_stats, usage_stats, update_lock, now,
                   wpc, wop, wtmp, calls, completed, rpc, rop,
                   kcut, kleft, ksize>>
    /\ UNCHANGED nonStoreVars

\* for stats in self._link_stats.values(): the next record, and the right-hand
\* side [share for share in stats['share_history'] if share['timestamp'] > cutoff_date]
K_link_next(k) ==
    /\ kpc[k] = "link_next"
    /\ IF Cardinality(DOMAIN link_stats) # ksize[k]
       THEN K_raise(k)
       ELSE IF kleft[k] = {}
       THEN /\ ksize' = [ksize EXCEPT ![k] = 0]
            /\ KGoto(k, "usage")
            /\ UNCHANGED <<storeVars, writerVars, readerVars, kcut, kleft, kcur, ktmp, klive>>
       ELSE \E s \in kleft[k] :
              /\ kcur' = [kcur EXCEPT ![k] = s]
              /\ ktmp' = [ktmp EXCEPT ![k] =
                            NewerThan(link_stats[s].share_history, kcut[k])]
              /\ klive' = [klive EXCEPT ![k] = TRUE]
              /\ kleft' = [kleft EXCEPT ![k] = @ \ {s}]
              /\ KGoto(k, "link_store")
              /\ UNCHANGED <<storeVars, writerVars, readerVars, kcut, ksize>>
    /\ UNCHANGED nonStoreVars

\* stats['share_history'] = <the list built>
K_link_store(k) ==
    /\ kpc[k] = "link_store"
    /\ LET s == kcur[k]
       IN IF klive[k]
          THEN /\ link_stats' = [link_stats EXCEPT ![s].share_history = ktmp[k]]
               /\ wref' = WrefListReplaced("link", s)
               /\ rlive' = RliveReplaced("link", s)
               /\ robs' = RobsReplaced("link", s, link_stats[s].share_history)
          ELSE UNCHANGED <<link_stats, wref, rlive, robs>>
    /\ KGoto(k, "link_next")
    /\ kcur' = [kcur EXCEPT ![k] = "none"]
    /\ ktmp' = [ktmp EXCEPT ![k] = <<>>]
    /\ klive' = [klive EXCEPT ![k] = FALSE]
    /\ UNCHANGED <<chat_stats, document_stats, usage_stats, update_lock, now,
                   wpc, wop, wtmp, calls, completed, rpc, rop,
                   kcut, kleft, ksize>>
    /\ UNCHANGED nonStoreVars

\* the calendar resets and the pruning of response_times, for the clock reading t
CleanupUsage(u, t, cutoff) ==
    [u EXCEPT
       !.monthly_active = IF DayOfMonth(t) = 1 THEN {} ELSE @,
       !.weekly_active = IF WeekdayOf(t) = 0 THEN {} ELSE @,
       !.daily_active = IF HourOf(t) = 0 THEN {} ELSE @,
       !.peak_hours = IF HourOf(t) = 0 THEN [h \in 0..(HoursPerDay - 1) |-> 0] ELSE @,
       !.response_times = SelectSeq(@, LAMBDA e : e.timestamp > cutoff)]

\* the calendar resets, and the right-hand side
\* [rt for rt in self._usage_stats['response_times'] if rt['timestamp'] > cutoff_date]
K_usage(k) ==
    /\ kpc[k] = "usage"
    /\ usage_stats' = [CleanupUsage(usage_stats, now, kcut[k]) EXCEPT
                         !.response_times = usage_stats.response_times]
    /\ ktmp' = [ktmp EXCEPT ![k] =
                  CleanupUsage(usage_stats, now, kcut[k]).response_times]
    /\ KGoto(k, "rt_store")
    /\ UNCHANGED <<chat_stats, document_stats, link_stats, update_lock, now,
                   writerVars, readerVars, kcut, kleft, ksize, kcur, klive>>
    /\ UNCHANGED nonStoreVars

\* self._usage_stats['response_times'] = <the list built>: the end of
\* cleanup_old_data; the lock is released
K_rt_store(k) ==
    /\ kpc[k] = "rt_store"
    /\ usage_stats' = [usage_stats EXCEPT !.response_times = ktmp[k]]
    /\ ktmp' = [ktmp EXCEPT ![k] = <<>>]
    /\ update_lock' = "free"
    /\ KGoto(k, "sleep")
    /\ UNCHANGED <<chat_stats, document_stats, link_stats, now, writerVars, readerVars,
                   kcut, kleft, ksize, kcur, klive>>
    /\ UNCHANGED nonStoreVars

cleanup_old_data(k) ==
    \/ K_lock(k) \/ K_chat(k) \/ K_doc_next(k) \/ K_doc_store(k)
    \/ K_link_next(k) \/ K_link_store(k) \/ K_usage(k) \/ K_rt_store(k)

----------------------------------------------------------------------------
\* the wall clock advances by an hour
Advance ==
    /\ HourOf(now) < MaxTime
    /\ now' = now + 1
    /\ UNCHANGED <<chat_stats, document_stats, link_stats, usage_stats, update_lock,
                   writerVars, readerVars, cleanerVars>>
    /\ UNCHANGED nonStoreVars

\* no call is in progress
Quiet ==
    /\ \A t \in Writers : wpc[t] = "idle" /\ upc[t] = "idle"
    /\ \A r \in Readers : rpc[r] = "idle"
    /\ \A k \in Cleaners : kpc[k] = "sleep"

\* the service runs on for a retention window (30 days), no call lasting that long
AdvanceWindow ==
    /\ now < MaxWindows * RetentionHours
    /\ Quiet
    /\ now' = now + RetentionHours
    /\ UNCHANGED <<chat_stats, document_stats, link_stats, usage_stats, update_lock,
                   writerVars, readerVars, cleanerVars>>
    /\ UNCHANGED nonStoreVars

(* The store under concurrent writers, readers and cleanup *)

NextStore ==
    \/ \E t \in Writers :
          track_chat_activity(t) \/ track_document_upload(t) \/ track_link_share(t)
          \/ StartCall(t)
    \/ \E r \in Readers : get_statistics(r)
    \/ \E k \in Cleaners : cleanup_old_data(k)
    \/ Advance

SpecStore == Init /\ [][NextStore]_vars

(* The store over more than a retention window, one call at a time: the
   calls and the cleanup passes do not overlap *)

SeqCall(t) == Quiet /\ StartCall(t)

SeqPass(k) == Quiet /\ K_lock(k)

\* a query arrives while no other call is in progress
SeqRead(r) == Quiet /\ RD_start(r)

\* an hour passes between two calls
SeqAdvance == Quiet /\ Advance

\* calls made one at a time are all served by one request thread
SeqWriters == {CHOOSE t \in Writers : TRUE}

NextRetention ==
    \/ \E t \in SeqWriters :
          track_chat_activity(t) \/ track_document_upload(t) \/ track_link_share(t)
          \/ SeqCall(t)
    \/ \E k \in Cleaners :
          \/ SeqPass(k) \/ K_chat(k) \/ K_doc_next(k) \/ K_doc_store(k)
          \/ K_link_next(k) \/ K_link_store(k) \/ K_usage(k) \/ K_rt_store(k)
    \/ \E r \in Readers :
          SeqRead(r) \/ RD_get(r) \/ RD_new(r) \/ RD_hist(r) \/ RD_ret(r)
    \/ SeqAdvance
    \/ AdvanceWindow

SpecRetention == Init /\ [][NextRetention]_vars

(* Calls and scoped queries made one at a time, no cleanup pass running *)

NextUploads ==
    \/ \E t \in SeqWriters :
          track_chat_activity(t) \/ track_document_upload(t) \/ track_link_share(t)
          \/ SeqCall(t)
    \/ \E r \in Readers :
          SeqRead(r) \/ RD_get(r) \/ RD_new(r) \/ RD_hist(r) \/ RD_ret(r)
    \/ SeqAdvance

SpecUploads == Init /\ [][NextUploads]_vars

----------------------------------------------------------------------------
(* track_user_activity(user_id), called by the chat handlers without the lock *)

UGoto(t, p) == upc' = [upc EXCEPT ![t] = p]

\* what no step of track_user_activity touches
notUsage ==
    <<chat_stats, document_stats, link_stats, update_lock, now,
      wpc, wop, wtmp, wref, completed, readerVars, cleanerVars, registryVars,
      ctorVars>>

\* an add that leaves the set as it was
NotAdded(set, x) == set

\* set.add(x)
Added(set, x) == set \cup {x}

\* now = datetime.now()
UA_start(t) ==
    /\ upc[t] = "idle"
    /\ wpc[t] = "idle"
    /\ calls < MaxCalls
    /\ calls' = calls + 1
    /\ \E u \in Users : uarg' = [uarg EXCEPT ![t] = u]
    /\ unow' = [unow EXCEPT ![t] = now]
    /\ UGoto(t, "ua_daily")
    /\ UNCHANGED <<usage_stats, utmp, notUsage>>

\* self._usage_stats['daily_active'].add(user_id)
UA_daily(t) ==
    /\ upc[t] = "ua_daily"
    /\ usage_stats' = [usage_stats EXCEPT !.daily_active = Added(@, uarg[t])]
    /\ UGoto(t, "ua_wclear")
    /\ UNCHANGED <<calls, uarg, unow, utmp, notUsage>>

\* if now.weekday() == 0: self._usage_stats['weekly_active'].clear()
UA_wclear(t) ==
    /\ upc[t] = "ua_wclear"
    /\ usage_stats' = [usage_stats EXCEPT
                         !.weekly_active = IF WeekdayOf(unow[t]) = 0 THEN {} ELSE @]
    /\ UGoto(t, "ua_wadd")
    /\ UNCHANGED <<calls, uarg, unow, utmp, notUsage>>

\* self._usage_stats['weekly_active'].add(user_id)
UA_wadd(t) ==
    /\ upc[t] = "ua_wadd"
    /\ usage_stats' = [usage_stats EXCEPT !.weekly_active = Added(@, uarg[t])]
    /\ UGoto(t, "ua_mclear")
    /\ UNCHANGED <<calls, uarg, unow, utmp, notUsage>>

\* if now.day == 1: self._usage_stats['monthly_active'].clear()
UA_mclear(t) ==
    /\ upc[t] = "ua_mclear"
    /\ usage_stats' = [usage_stats EXCEPT
                         !.monthly_active = IF DayOfMonth(unow[t]) = 1 THEN {} ELSE @]
    /\ UGoto(t, "ua_madd")
    /\ UNCHANGED <<calls, uarg, unow, utmp, notUsage>>

\* self._usage_stats['monthly_active'].add(user_id)
UA_madd(t) ==
    /\ upc[t] = "ua_madd"
    /\ usage_stats' = [usage_stats EXCEPT !.monthly_active = Added(@, uarg[t])]
    /\ UGoto(t, "ua_peak_read")
    /\ UNCHANGED <<calls, uarg, unow, utmp, notUsage>>

\* self._usage_stats['peak_hours'][hour] += 1: the read
UA_peak_read(t) ==
    /\ upc[t] = "ua_peak_read"
    /\ utmp' = [utmp EXCEPT ![t] = usage_stats.peak_hours[HourOf(unow[t])]]
    /\ UGoto(t, "ua_peak_write")
    /\ UNCHANGED <<usage_stats, calls, uarg, unow, notUsage>>

\* ... the write (into the list peak_hours names now)
UA_peak_write(t) ==
    /\ upc[t] = "ua_peak_write"
    /\ usage_stats' = [usage_stats EXCEPT !.peak_hours[HourOf(unow[t])] = utmp[t] + 1]
    /\ UGoto(t, "ua_len")
    /\ UNCHANGED <<calls, uarg, unow, utmp, notUsage>>

\* len(self._usage_stats['daily_active'])
UA_len(t) ==
    /\ upc[t] = "ua_len"
    /\ utmp' = [utmp EXCEPT ![t] = Cardinality(usage_stats.daily_active)]
    /\ UGoto(t, "ua_store")
    /\ UNCHANGED <<usage_stats, calls, uarg, unow, notUsage>>

\* self._usage_stats['concurrent_users'] = <that length>; return
UA_store(t) ==
    /\ upc[t] = "ua_store"
    /\ usage_stats' = [usage_stats EXCEPT !.concurrent_users = utmp[t]]
    /\ upc' = [upc EXCEPT ![t] = "idle"]
    /\ uarg' = [uarg EXCEPT ![t] = "none"]
    /\ unow' = [unow EXCEPT ![t] = 0]
    /\ utmp' = [utmp EXCEPT ![t] = 0]
    /\ UNCHANGED <<calls, notUsage>>

track_user_activity(t) ==
    \/ UA_start(t) \/ UA_daily(t) \/ UA_wclear(t) \/ UA_wadd(t) \/ UA_mclear(t)
    \/ UA_madd(t) \/ UA_peak_read(t) \/ UA_peak_write(t) \/ UA_len(t) \/ UA_store(t)

(* track_response_time(response_time), called by the chat endpoint without the
   lock.  The response time of a call stands for the call: it is the number of
   the call. *)

\* the entries kept (1000 in the code)
ResponseCap == 2

\* lst[-n:]
LastN(lst, n) ==
    IF Len(lst) <= n THEN lst ELSE SubSeq(lst, Len(lst) - n + 1, Len(lst))

\* self._usage_stats['response_times'].append({'timestamp': ..., 'response_time': ...})
RT_append(t) ==
    /\ upc[t] = "idle"
    /\ wpc[t] = "idle"
    /\ calls < MaxCalls
    /\ calls' = calls + 1
    /\ utmp' = [utmp EXCEPT ![t] = calls + 1]
    /\ usage_stats' = [usage_stats EXCEPT !.response_times =
                         Append(@, [timestamp |-> now, response_time |-> calls + 1])]
    /\ UGoto(t, "rt_len")
    /\ UNCHANGED <<uarg, unow, notUsage>>

\* if len(self._usage_stats['response_times']) > 1000: ..., else return
RT_len(t) ==
    /\ upc[t] = "rt_len"
    /\ IF Len(usage_stats.response_times) > ResponseCap
       THEN UGoto(t, "rt_slice") /\ UNCHANGED utmp
       ELSE UGoto(t, "idle") /\ utmp' = [utmp EXCEPT ![t] = 0]
    /\ UNCHANGED <<usage_stats, calls, uarg, unow, notUsage>>

\* the right-hand side self._usage_stats['response_times'][-1000:], a new list
RT_slice(t) ==
    /\ upc[t] = "rt_slice"
    /\ unow' = [unow EXCEPT ![t] = LastN(usage_stats.response_times, ResponseCap)]
    /\ UGoto(t, "rt_store")
    /\ UNCHANGED <<usage_stats, calls, uarg, utmp, notUsage>>

\* self._usage_stats['response_times'] = <the slice>; return
RT_store(t) ==
    /\ upc[t] = "rt_store"
    /\ usage_stats' = [usage_stats EXCEPT !.response_times = unow[t]]
    /\ unow' = [unow EXCEPT ![t] = 0]
    /\ utmp' = [utmp EXCEPT ![t] = 0]
    /\ UGoto(t, "idle")
    /\ UNCHANGED <<calls, uarg, notUsage>>

track_response_time(t) == RT_append(t) \/ RT_len(t) \/ RT_slice(t) \/ RT_store(t)

(* The response times under the calls of the event loop's thread, which
   tracks response times and uploads, and the cleanup passes beside it *)

NextResponse ==
    \/ \E t \in SeqWriters :
          \/ track_response_time(t)
          \/ StartUpload(t) \/ track_document_upload(t) \/ track_link_share(t)
    \/ \E k \in Cleaners : cleanup_old_data(k)

SpecResponse == Init /\ [][NextResponse]_vars

(* One request thread beside the cleanup thread, over more than a retention
   window: the calls are made one after another, and a cleanup pass may overlap
   a call *)

NextEvict ==
    \/ \E t \in SeqWriters :
          track_chat_activity(t) \/ track_document_upload(t) \/ track_link_share(t)
          \/ StartCall(t)
    \/ \E k \in Cleaners : cleanup_old_data(k)
    \/ Advance
    \/ AdvanceWindow

SpecEvict == Init /\ [][NextEvict]_vars

(* The usage statistics under concurrent track_user_activity calls and cleanup *)

\* the service may start at any hour: Monday the 1st, Tuesday the 2nd, Monday the 8th
InitUsage == InitBase /\ now \in StartHours

NextUsage ==
    \/ \E t \in Writers :
          track_user_activity(t) \/ track_document_upload(t) \/ track_link_share(t)
          \/ StartUpload(t)
    \/ \E k \in Cleaners : cleanup_old_data(k)
    \/ Advance

SpecUsage == InitUsage /\ [][NextUsage]_vars

(* track_user_activity calls made one at a time, with cleanup passes and hours
   between them *)

SeqActivity(t) == Quiet /\ UA_start(t)

NextActivity ==
    \/ \E t \in SeqWriters :
          \/ SeqActivity(t)
          \/ UA_daily(t) \/ UA_wclear(t) \/ UA_wadd(t) \/ UA_mclear(t) \/ UA_madd(t)
          \/ UA_peak_read(t) \/ UA_peak_write(t) \/ UA_len(t) \/ UA_store(t)
    \/ \E k \in Cleaners :
          \/ SeqPass(k) \/ K_chat(k) \/ K_doc_next(k) \/ K_link_next(k)
          \/ K_usage(k) \/ K_rt_store(k)
    \/ SeqAdvance

SpecActivity == InitUsage /\ [][NextActivity]_vars

----------------------------------------------------------------------------
(* _calculate_retention_rates(), called by get_enhanced_statistics() from the
   broadcast thread and from the statistics endpoint, without the lock:

       len(retention[...]) / len(self._usage_stats['weekly_active'])
           if self._usage_stats['weekly_active'] else 0

   The condition is evaluated first, the quotient after it, and each reads the
   set anew.  The retention maps are written by track_user_retention only,
   which no step of this model calls: the numerator is 0. *)

ActiveSets == {"weekly_active", "monthly_active"}

ActiveSet(name) ==
    IF name = "weekly_active" THEN usage_stats.weekly_active
    ELSE usage_stats.monthly_active

RR_start(r) ==
    /\ rpc[r] = "idle"
    /\ calls < MaxCalls
    /\ calls' = calls + 1
    /\ \E a \in ActiveSets :
          rop' = [rop EXCEPT ![r] = [kind |-> "retention", scope |-> a]]
    /\ rpc' = [rpc EXCEPT ![r] = "rr_test"]
    /\ UNCHANGED <<storeVars, wpc, wop, wtmp, wref, completed, robs, rlive, cleanerVars>>
    /\ UNCHANGED nonStoreVars

\* ... if self._usage_stats['weekly_active'] else 0
RR_test(r) ==
    /\ rpc[r] = "rr_test"
    /\ IF ActiveSet(rop[r].scope) # {}
       THEN /\ rpc' = [rpc EXCEPT ![r] = "rr_div"]
            /\ UNCHANGED robs
       ELSE /\ rpc' = [rpc EXCEPT ![r] = "rd_ret"]
            /\ robs' = [robs EXCEPT ![r] = [count |-> 0, list |-> <<>>]]
    /\ UNCHANGED <<storeVars, writerVars, rop, rlive, cleanerVars>>
    /\ UNCHANGED nonStoreVars

\* len(...) / len(self._usage_stats['weekly_active']): ZeroDivisionError when the
\* set is empty by now
RR_div(r) ==
    /\ rpc[r] = "rr_div"
    /\ LET d == Cardinality(ActiveSet(rop[r].scope))
       IN IF d = 0
          THEN /\ rpc' = [rpc EXCEPT ![r] = "zero_division"]
               /\ UNCHANGED robs
          ELSE /\ rpc' = [rpc EXCEPT ![r] = "rd_ret"]
               /\ robs' = [robs EXCEPT ![r] = [count |-> 0 \div d, list |-> <<>>]]
    /\ UNCHANGED <<storeVars, writerVars, rop, rlive, cleanerVars>>
    /\ UNCHANGED nonStoreVars

\* at "zero_division" the exception has left the call
calculate_retention_rates(r) ==
    RR_start(r) \/ RR_test(r) \/ RR_div(r) \/ RD_ret(r)

(* The retention ratios computed beside track_user_activity calls *)

NextRatios ==
    \/ \E t \in Writers : track_user_activity(t)
    \/ \E r \in Readers : calculate_retention_rates(r)
    \/ Advance

SpecRatios == InitUsage /\ [][NextRatios]_vars

----------------------------------------------------------------------------
(* _serialize_for_json(obj).  A Python value is a record of its type and its
   content: the text of a str, the number of an int, the clock reading of a
   datetime, the elements of a set, the items of a dict, of a defaultdict and
   of a list. *)

\* type(obj) and the content of obj
PyType(obj) == CHOOSE t \in DOMAIN obj : TRUE
Content(obj) == obj[PyType(obj)]

PyStr(text) == [str |-> text]
PyInt(n) == [int |-> n]
PyDatetime(t) == [datetime |-> t]
PySet(elems) == [set |-> elems]
PyDict(items) == [dict |-> items]
PyDefaultDict(items) == [defaultdict |-> items]
PyList(items) == [list |-> items]

\* obj.isoformat()
IsoFormat(t) ==
    CASE t = 0 -> "2024-01-01T00:00:00"
      [] t = 1 -> "2024-01-01T01:00:00"
      [] OTHER -> "2024-01-01T02:00:00"

\* list(obj) of a set: its elements, as they are, in the order of iteration
RECURSIVE ListOfSet(_)
ListOfSet(S) ==
    IF S = {} THEN <<>>
    ELSE LET x == CHOOSE y \in S : TRUE IN <<x>> \o ListOfSet(S \ {x})

\* the if / elif chain of _serialize_for_json: the branches of datetime, set
\* and defaultdict return without a recursive call
RECURSIVE Serialize(_)
Serialize(obj) ==
    CASE PyType(obj) = "datetime" -> PyStr(IsoFormat(Content(obj)))
      [] PyType(obj) = "set" -> PyList(ListOfSet(Content(obj)))
      [] PyType(obj) = "defaultdict" -> PyDict(Content(obj))
      [] PyType(obj) = "dict" -> PyDict([k \in DOMAIN Content(obj) |-> Serialize(Content(obj)[k])])
      [] PyType(obj) = "list" -> PyList([i \in DOMAIN Content(obj) |-> Serialize(Content(obj)[i])])
      [] OTHER -> obj

(* The values serialized: the kinds of value the statistics hold (text,
   counts, timestamps, sets of user ids, defaultdicts, dicts and lists), nested
   up to MaxDepth containers deep *)

MaxDepth == 3

PyAtoms == {PyStr("u1"), PyInt(1), PyDatetime(0)}

\* the containers with one item x: {"k": x}, defaultdict {"k": x}, [x]
Containers(x) ==
    {PyDict([k \in {"k"} |-> x]), PyDefaultDict([k \in {"k"} |-> x]), PyList(<<x>>)}

RECURSIVE PyValues(_)
PyValues(depth) ==
    IF depth = 0 THEN PyAtoms
    ELSE LET inner == PyValues(depth - 1)
         IN inner \cup {PySet({}), PySet({PyStr("u1")})}
                  \cup UNION {Containers(x) : x \in inner}

\* out = self._serialize_for_json(obj)
SZ_call(r) ==
    /\ rpc[r] = "idle"
    /\ calls < MaxCalls
    /\ calls' = calls + 1
    /\ rop' = [rop EXCEPT ![r] = [kind |-> "serialize", scope |-> "none"]]
    /\ \E obj \in PyValues(MaxDepth) :
          robs' = [robs EXCEPT ![r] = [obj |-> obj, out |-> Serialize(obj)]]
    /\ rpc' = [rpc EXCEPT ![r] = "sz_again"]
    /\ UNCHANGED <<storeVars, wpc, wop, wtmp, wref, completed, rlive, cleanerVars>>
    /\ UNCHANGED nonStoreVars

\* again = self._serialize_for_json(out)
SZ_again(r) ==
    /\ rpc[r] = "sz_again"
    /\ robs' = [robs EXCEPT ![r] = [obj |-> robs[r].obj, out |-> robs[r].out,
                                    again |-> Serialize(robs[r].out)]]
    /\ rpc' = [rpc EXCEPT ![r] = "rd_ret"]
    /\ UNCHANGED <<storeVars, writerVars, rop, rlive, cleanerVars>>
    /\ UNCHANGED nonStoreVars

NextSerialize == \E r \in Readers : SZ_call(r) \/ SZ_again(r) \/ RD_ret(r)

SpecSerialize == Init /\ [][NextSerialize]_vars

----------------------------------------------------------------------------
(* _get_top_items(items, limit) and the items get_enhanced_statistics passes
   it.  A Python dict is the sequence of its (key, value) items in insertion
   order. *)

\* limit=5, scaled
TopLimit == 3
\* the most uploads of one type in one chat
MaxCount == 3

ContentTypes == {"application/pdf", "text/plain"}

KeysOf(d) == {d[i][1] : i \in DOMAIN d}

\* d[k] = v: an old key keeps its place, a new key goes last
SetItem(d, k, v) ==
    IF k \in KeysOf(d)
    THEN [i \in DOMAIN d |-> IF d[i][1] = k THEN <<k, v>> ELSE d[i]]
    ELSE Append(d, <<k, v>>)

\* dict(pairs)
RECURSIVE DictOf(_)
DictOf(pairs) ==
    IF pairs = <<>> THEN <<>>
    ELSE LET last == pairs[Len(pairs)]
         IN SetItem(DictOf(SubSeq(pairs, 1, Len(pairs) - 1)), last[1], last[2])

RECURSIVE InsertByCount(_, _)
InsertByCount(s, e) ==
    IF s = <<>> THEN <<e>>
    ELSE IF Head(s)[2] >= e[2] THEN <<Head(s)>> \o InsertByCount(Tail(s), e)
    ELSE <<e>> \o s

\* sorted(items, key=lambda x: x[1], reverse=True): equal counts keep their order
RECURSIVE SortedByCount(_)
SortedByCount(items) ==
    IF items = <<>> THEN <<>>
    ELSE InsertByCount(SortedByCount(SubSeq(items, 1, Len(items) - 1)),
                       items[Len(items)])

\* lst[:n]
FirstN(lst, n) == IF Len(lst) <= n THEN lst ELSE SubSeq(lst, 1, n)

\* dict(sorted(items, key=lambda x: x[1], reverse=True)[:limit])
GetTopItems(items, limit) == DictOf(FirstN(SortedByCount(items), limit))

\* the 'types' of one chat: the types uploaded, in the order of their first
\* upload, each with the number of its uploads
TypesDicts ==
    {<<>>}
    \cup {<<<<t, n>>>> : t \in ContentTypes, n \in 1..MaxCount}
    \cup {<<<<p[1], n>>, <<p[2], m>>>> :
            p \in {q \in ContentTypes \X ContentTypes : q[1] # q[2]},
            n \in 1..MaxCount, m \in 1..MaxCount}

\* _document_stats: the chats in the order of their first upload
DocumentStores ==
    {<<>>}
    \cup {<<[types |-> d]>> : d \in TypesDicts}
    \cup {<<[types |-> d], [types |-> e]>> : d \in TypesDicts, e \in TypesDicts}

\* [t for stats in self._document_stats.values() for t in stats['types'].items()]
RECURSIVE TypeItems(_)
TypeItems(store) ==
    IF store = <<>> THEN <<>> ELSE Head(store).types \o TypeItems(Tail(store))

\* 'popular_types': self._get_top_items([...], limit=5)
TI_call(r) ==
    /\ rpc[r] = "idle"
    /\ calls < MaxCalls
    /\ calls' = calls + 1
    /\ rop' = [rop EXCEPT ![r] = [kind |-> "top", scope |-> "none"]]
    /\ \E store \in DocumentStores :
          robs' = [robs EXCEPT ![r] =
                      [items |-> TypeItems(store),
                       out |-> GetTopItems(TypeItems(store), TopLimit)]]
    /\ rpc' = [rpc EXCEPT ![r] = "rd_ret"]
    /\ UNCHANGED <<storeVars, wpc, wop, wtmp, wref, completed, rlive, cleanerVars>>
    /\ UNCHANGED nonStoreVars

NextTop == \E r \in Readers : TI_call(r) \/ RD_ret(r)

SpecTop == Init /\ [][NextTop]_vars

----------------------------------------------------------------------------
(* The Subscriber Registry and the snapshot sent to a subscriber *)

handlerVars == <<hpc, hconn, hmsg, msgs>>
sendVars == <<spc, skey, spay, sread, sdata>>
bcastVars == <<bpc, bleft, bcur, bstart, battempt, bfailed, bdata, ticks>>

\* sum(...) over the values of a dict
RECURSIVE SumOver(_, _)
SumOver(f, S) ==
    IF S = {} THEN 0
    ELSE LET x == CHOOSE y \in S : TRUE IN f[x] + SumOver(f, S \ {x})

\* set().union(*[...]) over the values of a dict
RECURSIVE UnionOver(_, _)
UnionOver(f, S) ==
    IF S = {} THEN {}
    ELSE LET x == CHOOSE y \in S : TRUE IN f[x] \cup UnionOver(f, S \ {x})

\* a chat counted as active whenever it has a last_activity
EverActive(s) == chat_stats[s].last_activity # None

\* stats['last_activity'] and (datetime.now() - stats['last_activity']).days < 7:
\* timedelta.days is the number of whole days elapsed
IsActive(s) ==
    /\ chat_stats[s].last_activity # None
    /\ (now - chat_stats[s].last_activity) \div HoursPerDay < 7

\* get_chat_statistics(), get_document_statistics() and get_link_statistics()
\* without a scope
ChatRollup ==
    [total_chats |-> Cardinality(DOMAIN chat_stats),
     total_messages |->
        SumOver([s \in DOMAIN chat_stats |-> chat_stats[s].message_count], DOMAIN chat_stats),
     total_documents |->
        SumOver([s \in DOMAIN chat_stats |-> chat_stats[s].document_count], DOMAIN chat_stats),
     total_links |->
        SumOver([s \in DOMAIN chat_stats |-> chat_stats[s].link_count], DOMAIN chat_stats),
     active_chats |-> Cardinality({s \in DOMAIN chat_stats : IsActive(s)}),
     total_active_users |->
        Cardinality(UnionOver([s \in DOMAIN chat_stats |-> chat_stats[s].active_users],
                              DOMAIN chat_stats))]

\* get_chat_statistics(chat_id) for a scope in the store: the counters of the
\* copy and the active_users_count added to it
ChatView(s) ==
    [message_count |-> chat_stats[s].message_count,
     active_users_count |-> Cardinality(chat_stats[s].active_users)]

DocumentRollup ==
    [total_documents |->
        SumOver([s \in DOMAIN document_stats |-> document_stats[s].count],
                DOMAIN document_stats),
     total_size |->
        SumOver([s \in DOMAIN document_stats |-> document_stats[s].total_size],
                DOMAIN document_stats)]

LinkRollup ==
    [total_links |->
        SumOver([s \in DOMAIN link_stats |-> link_stats[s].count], DOMAIN link_stats)]


\* what no step of the registry, the handlers or the broadcast threads touches
notRegistry ==
    <<storeVars, writerVars, readerVars, cleanerVars, usageThreadVars, ctorVars>>

\* the keys of the dict _send_analytics_update builds, in insertion order
KeyOrder == <<"chatStats", "documentStats", "linkStats", "usageStats", "enhancedStats">>

AllKeys == {KeyOrder[i] : i \in DOMAIN KeyOrder}

\* the topics a client may name
TopicLists == {<<"chat">>, <<"Chat">>}

\* a topic that is a JSON number: the 7 of {"type": "subscribe", "topics": [7]},
\* written with a mark that keeps it apart from the topics that are strings
NumberTopic == "#7"

NonStrings == {NumberTopic}

\* the characters of the strings that occur
Chars(str) ==
    CASE str = "chatStats" -> <<"c", "h", "a", "t", "S", "t", "a", "t", "s">>
      [] str = "documentStats" ->
            <<"d", "o", "c", "u", "m", "e", "n", "t", "S", "t", "a", "t", "s">>
      [] str = "linkStats" -> <<"l", "i", "n", "k", "S", "t", "a", "t", "s">>
      [] str = "usageStats" -> <<"u", "s", "a", "g", "e", "S", "t", "a", "t", "s">>
      [] str = "enhancedStats" ->
            <<"e", "n", "h", "a", "n", "c", "e", "d", "S", "t", "a", "t", "s">>
      [] str = "chat" -> <<"c", "h", "a", "t">>
      [] str = "Chat" -> <<"C", "h", "a", "t">>

\* str.lower(), character by character
LowerChar(ch) ==
    CASE ch = "C" -> "c"
      [] ch = "S" -> "s"
      [] OTHER -> ch

Lower(chars) == [i \in DOMAIN chars |-> LowerChar(chars[i])]

\* the operator "a in b" of two strings
IsSubstring(a, b) ==
    \E i \in 0..(Len(b) - Len(a)) : SubSeq(b, i + 1, i + Len(a)) = a

\* a filter that lets every key through
KeyMatchesAlways(k, topics) == TRUE

\* any(topic in k.lower() for topic in topics)
KeyMatches(k, topics) ==
    \E topic \in topics : IsSubstring(Chars(topic), Lower(Chars(k)))

\* self._client_topics[websocket]: a defaultdict(set), a miss stores an empty set
TopicsRead(c) == IF c \in DOMAIN client_topics THEN client_topics[c] ELSE {}

TopicsAfterRead(c) ==
    IF c \in DOMAIN client_topics THEN client_topics ELSE Put(client_topics, c, {})

\* a discard that removes nothing
KeepAll(clients, c) == clients

\* set.discard and dict.pop(key, None): neither raises on a missing element
Discard(clients, c) == clients \ {c}

\* a pop that empties the whole dict
PopEverything(topics, c) == EmptyMap

Pop(topics, c) == Del(topics, c)

\* unregister_websocket as one function of the registry
unregister_websocket(reg, c) ==
    [clients |-> Discard(reg.clients, c), topics |-> Pop(reg.topics, c)]

\* a loop that gives up the clients left
AbortAfterSendError(left) == {}

\* the for loop of _periodic_broadcast after the send to one client failed:
\* the exception was handled, the loop goes on with the clients left
AfterSendError(left) == left

\* the channel runner r sends to: a handler's own, a broadcast thread's current
Target(r) == IF r \in Channels THEN r ELSE bcur[r]

\* handlers share the server's event loop: one runs from an await to the next;
\* the broadcast threads have their own loops
MayRun(r) == r \in Broadcasters \/ loop_owner \in {NoChan, r}

Holds(r) == loop_owner' = IF r \in Channels THEN r ELSE loop_owner

Yields(r) == loop_owner' = IF r \in Channels THEN NoChan ELSE loop_owner

SGoto(r, p) == spc' = [spc EXCEPT ![r] = p]

\* _send_analytics_update returns to its caller: the handler goes on to
\* receive_json, the broadcast thread to the next client of its list
SReturn(r, failed) ==
    /\ spc' = [spc EXCEPT ![r] = "idle"]
    /\ skey' = [skey EXCEPT ![r] = 0]
    /\ spay' = [spay EXCEPT ![r] = {}]
    /\ sread' = [sread EXCEPT ![r] = {}]
    /\ sdata' = [sdata EXCEPT ![r] = 0]
    /\ Yields(r)
    /\ IF r \in Channels
       THEN /\ hpc' = [hpc EXCEPT ![r] = "recv"]
            /\ UNCHANGED <<hconn, hmsg, msgs, bcastVars>>
       ELSE /\ bleft' = [bleft EXCEPT ![r] = IF failed THEN AfterSendError(@) ELSE @]
            /\ bfailed' = [bfailed EXCEPT ![r] = IF failed THEN @ \cup {bcur[r]} ELSE @]
            /\ bdata' = [bdata EXCEPT ![r] =
                            IF ~failed /\ @ = None /\ "chatStats" \in spay[r]
                            THEN sdata[r] ELSE @]
            /\ UNCHANGED <<bpc, bcur, bstart, battempt, ticks, handlerVars>>

\* data = {'chatStats': ..., ..., 'enhancedStats': ...}: the five statistics are
\* read; a read that raises (a dict changed size while it was iterated) is
\* caught by the except clause
S_build(r) ==
    /\ spc[r] = "build"
    /\ MayRun(r)
    /\ Holds(r)
    /\ \/ /\ spay' = [spay EXCEPT ![r] = AllKeys]
          /\ sdata' = [sdata EXCEPT ![r] = ChatRollup.total_messages]
          /\ SGoto(r, "if")
       \/ /\ SGoto(r, "unreg_discard")
          /\ UNCHANGED <<spay, sdata>>
    /\ UNCHANGED <<websocket_clients, client_topics, skey, sread, handlerVars,
                   bcastVars, snapshots, notRegistry>>

\* if self._client_topics[websocket]:
S_if(r) ==
    /\ spc[r] = "if"
    /\ MayRun(r)
    /\ Holds(r)
    /\ client_topics' = TopicsAfterRead(Target(r))
    /\ sread' = [sread EXCEPT ![r] = {TopicsRead(Target(r))}]
    /\ IF TopicsRead(Target(r)) # {}
       THEN /\ spay' = [spay EXCEPT ![r] = {}]
            /\ skey' = [skey EXCEPT ![r] = 1]
            /\ SGoto(r, "key")
       ELSE /\ SGoto(r, "send")
            /\ UNCHANGED <<spay, skey>>
    /\ UNCHANGED <<websocket_clients, sdata, handlerVars, bcastVars, snapshots,
                   notRegistry>>

\* one key of the comprehension: {k: v ... if any(topic in k.lower() for topic
\* in self._client_topics[websocket])}, the topics read anew for each key.
\* any() takes the topics in the set's order and stops at the first that is in
\* the key; `7 in "chatstats"` raises TypeError, which the routine's except
\* clause catches
S_key(r) ==
    /\ spc[r] = "key"
    /\ MayRun(r)
    /\ Holds(r)
    /\ client_topics' = TopicsAfterRead(Target(r))
    /\ LET topics == TopicsRead(Target(r))
           strings == topics \ NonStrings
           k == KeyOrder[skey[r]]
       IN \/ /\ topics \cap NonStrings = {} \/ KeyMatches(k, strings)
             /\ sread' = [sread EXCEPT ![r] = @ \cup {topics}]
             /\ spay' = [spay EXCEPT ![r] =
                            IF KeyMatches(k, strings) THEN @ \cup {k} ELSE @]
             /\ IF skey[r] < Len(KeyOrder)
                THEN /\ skey' = [skey EXCEPT ![r] = @ + 1]
                     /\ UNCHANGED spc
                ELSE /\ skey' = [skey EXCEPT ![r] = 0]
                     /\ SGoto(r, "send")
             /\ UNCHANGED sdata
          \/ /\ topics \cap NonStrings # {}
             /\ SGoto(r, "unreg_discard")
             /\ skey' = [skey EXCEPT ![r] = 0]
             /\ spay' = [spay EXCEPT ![r] = {}]
             /\ sread' = [sread EXCEPT ![r] = {}]
             /\ sdata' = [sdata EXCEPT ![r] = 0]
    /\ UNCHANGED <<websocket_clients, handlerVars, bcastVars, snapshots,
                   notRegistry>>

\* await websocket.send_json(data): the frame is delivered and the routine
\* returns, or the send raises; a channel that is not open only raises
S_send(r) ==
    /\ spc[r] = "send"
    /\ MayRun(r)
    /\ \/ /\ hconn[Target(r)] = "open"
          /\ snapshots' = [snapshots EXCEPT ![Target(r)] = @ + 1]
          /\ SReturn(r, FALSE)
       \/ /\ SGoto(r, "unreg_discard")
          /\ spay' = [spay EXCEPT ![r] = {}]
          /\ sread' = [sread EXCEPT ![r] = {}]
          /\ sdata' = [sdata EXCEPT ![r] = 0]
          /\ Holds(r)
          /\ UNCHANGED <<skey, handlerVars, bcastVars, snapshots>>
    /\ UNCHANGED <<websocket_clients, client_topics, notRegistry>>

\* except Exception: await self.unregister_websocket(websocket), first line
S_unreg_discard(r) ==
    /\ spc[r] = "unreg_discard"
    /\ MayRun(r)
    /\ Holds(r)
    /\ websocket_clients' = Discard(websocket_clients, Target(r))
    /\ SGoto(r, "unreg_pop")
    /\ UNCHANGED <<client_topics, skey, spay, sread, sdata, handlerVars, bcastVars,
                   snapshots, notRegistry>>

\* ... second line, and the routine returns
S_unreg_pop(r) ==
    /\ spc[r] = "unreg_pop"
    /\ MayRun(r)
    /\ client_topics' = Pop(client_topics, Target(r))
    /\ SReturn(r, TRUE)
    /\ UNCHANGED <<websocket_clients, snapshots, notRegistry>>

send_analytics_update(r) ==
    \/ S_build(r) \/ S_if(r) \/ S_key(r) \/ S_send(r)
    \/ S_unreg_discard(r) \/ S_unreg_pop(r)

(* analytics_websocket(websocket), the /analytics endpoint *)

Messages ==
    {[type |-> ty, topics |-> <<>>, form |-> "list"] : ty \in {"ping", "refresh"}}
    \cup {[type |-> ty, topics |-> l, form |-> "list"] :
             ty \in {"subscribe", "unsubscribe"}, l \in TopicLists}

\* what a client that misuses the protocol sends: a type the handler does not
\* know, topics that are not a list (form "scalar"), text that is not JSON
\* (form "garbage", for which receive_json raises JSONDecodeError)
Misuse ==
    {[type |-> "bogus", topics |-> <<>>, form |-> "list"],
     [type |-> "subscribe", topics |-> <<>>, form |-> "scalar"],
     [type |-> "unsubscribe", topics |-> <<>>, form |-> "scalar"],
     [type |-> "", topics |-> <<>>, form |-> "garbage"]}

\* a handler that takes topics of any form for a list
DispatchUnchecked(m) ==
    IF m.form = "garbage" THEN "err_json"
    ELSE CASE m.type = "ping" -> "pong"
           [] m.type = "subscribe" -> "sub"
           [] m.type = "unsubscribe" -> "unsub"
           [] m.type = "refresh" -> "snap"
           [] OTHER -> "err_unknown"

\* the statement the handler goes to with the message: the except clause of
\* JSONDecodeError, or the branch of the if / elif chain on msg_type with its
\* isinstance(topics, list) test
Dispatch(m) ==
    IF m.form = "garbage" THEN "err_json"
    ELSE CASE m.type = "ping" -> "pong"
           [] m.type = "subscribe" -> IF m.form = "list" THEN "sub" ELSE "err_list"
           [] m.type = "unsubscribe" -> IF m.form = "list" THEN "unsub" ELSE "err_list"
           [] m.type = "refresh" -> "snap"
           [] OTHER -> "err_unknown"

\* the send_json statements of the message loop that answer a message
ReplyPcs == {"pong", "subscribed", "unsubscribed", "err_list", "err_unknown", "err_json"}

\* the frame each of them sends
Frame(pc, m) ==
    CASE pc = "pong" -> [type |-> "pong"]
      [] pc = "subscribed" -> [type |-> "subscribed", topics |-> m.topics]
      [] pc = "unsubscribed" -> [type |-> "unsubscribed", topics |-> m.topics]
      [] pc = "err_list" -> [type |-> "error", message |-> "Topics must be a list"]
      [] pc = "err_unknown" ->
            [type |-> "error", message |-> <<"Unknown message type: ", m.type>>]
      [] pc = "err_json" -> [type |-> "error", message |-> "Invalid JSON message"]

AsSet(list) == {list[i] : i \in DOMAIN list}

\* a subscribe that replaces the set
Replace(old, list) == AsSet(list)

\* set.update(list) and set.difference_update(list)
Update(old, list) == old \cup AsSet(list)

DifferenceUpdate(old, list) == old \ AsSet(list)

HGoto(c, p) == hpc' = [hpc EXCEPT ![c] = p]

\* await websocket.accept(): the connection opens, or the handshake fails and
\* the handler goes to its finally clause
H_accept(c) ==
    /\ hpc[c] = "new"
    /\ MayRun(c)
    /\ Holds(c)
    /\ \/ /\ hconn' = [hconn EXCEPT ![c] = "open"]
          /\ HGoto(c, "reg_add")
       \/ /\ hconn' = [hconn EXCEPT ![c] = "refused"]
          /\ HGoto(c, "fin_discard")
    /\ UNCHANGED <<websocket_clients, client_topics, hmsg, msgs, sendVars,
                   bcastVars, snapshots, notRegistry>>

\* register_websocket: self._websocket_clients.add(websocket)
H_reg_add(c) ==
    /\ hpc[c] = "reg_add"
    /\ MayRun(c)
    /\ Holds(c)
    /\ websocket_clients' = websocket_clients \cup {c}
    /\ HGoto(c, "reg_topics")
    /\ UNCHANGED <<client_topics, hconn, hmsg, msgs, sendVars, bcastVars,
                   snapshots, notRegistry>>

\* register_websocket: self._client_topics[websocket] = set(); then the
\* handler enters _send_analytics_update for the initial snapshot
H_reg_topics(c) ==
    /\ hpc[c] = "reg_topics"
    /\ MayRun(c)
    /\ Holds(c)
    /\ client_topics' = Put(client_topics, c, {})
    /\ HGoto(c, "snap")
    /\ SGoto(c, "build")
    /\ UNCHANGED <<websocket_clients, hconn, hmsg, msgs, skey, spay, sread, sdata,
                   bcastVars, snapshots, notRegistry>>

\* message = await websocket.receive_json(): a message arrives, or the client
\* goes away and the call raises, which the loop's except Exception catches
H_recv(c) ==
    /\ hpc[c] = "recv"
    /\ MayRun(c)
    /\ Holds(c)
    /\ \/ /\ hconn[c] = "open"
          /\ msgs < MaxMsgs
          /\ msgs' = msgs + 1
          /\ \E m \in Messages :
                /\ hmsg' = [hmsg EXCEPT ![c] = m]
                /\ HGoto(c, Dispatch(m))
                /\ IF Dispatch(m) = "snap" THEN SGoto(c, "build") ELSE UNCHANGED spc
          /\ UNCHANGED hconn
       \/ /\ hconn' = [hconn EXCEPT ![c] = "closed"]
          /\ HGoto(c, "err")
          /\ UNCHANGED <<hmsg, msgs, spc>>
    /\ UNCHANGED <<websocket_clients, client_topics, skey, spay, sread, sdata,
                   bcastVars, snapshots, notRegistry>>

\* a subscribe whose list of topics holds a number
NumberMessages ==
    {[type |-> "subscribe", topics |-> <<NumberTopic>>, form |-> "list"]}

\* message = await websocket.receive_json() of a client that sends one
H_recv_number(c) ==
    /\ hpc[c] = "recv"
    /\ MayRun(c)
    /\ Holds(c)
    /\ hconn[c] = "open"
    /\ msgs < MaxMsgs
    /\ msgs' = msgs + 1
    /\ \E m \in NumberMessages :
          /\ hmsg' = [hmsg EXCEPT ![c] = m]
          /\ HGoto(c, Dispatch(m))
    /\ UNCHANGED <<websocket_clients, client_topics, hconn, sendVars,
                   bcastVars, snapshots, notRegistry>>

\* message = await websocket.receive_json() of a client that misuses the protocol
H_misuse(c) ==
    /\ hpc[c] = "recv"
    /\ MayRun(c)
    /\ Holds(c)
    /\ hconn[c] = "open"
    /\ msgs < MaxMsgs
    /\ msgs' = msgs + 1
    /\ \E m \in Misuse :
          /\ hmsg' = [hmsg EXCEPT ![c] = m]
          /\ HGoto(c, Dispatch(m))
    /\ UNCHANGED <<websocket_clients, client_topics, hconn, sendVars,
                   bcastVars, snapshots, notRegistry>>

\* subscribe_to_topics: if websocket in self._client_topics: ....update(topics)
H_sub(c) ==
    /\ hpc[c] = "sub"
    /\ MayRun(c)
    /\ Holds(c)
    /\ client_topics' =
          IF c \in DOMAIN client_topics
          THEN [client_topics EXCEPT ![c] = Update(@, hmsg[c].topics)]
          ELSE client_topics
    /\ HGoto(c, "subscribed")
    /\ UNCHANGED <<websocket_clients, hconn, hmsg, msgs, sendVars, bcastVars,
                   snapshots, notRegistry>>

\* unsubscribe_from_topics: ....difference_update(topics)
H_unsub(c) ==
    /\ hpc[c] = "unsub"
    /\ MayRun(c)
    /\ Holds(c)
    /\ client_topics' =
          IF c \in DOMAIN client_topics
          THEN [client_topics EXCEPT ![c] = DifferenceUpdate(@, hmsg[c].topics)]
          ELSE client_topics
    /\ HGoto(c, "unsubscribed")
    /\ UNCHANGED <<websocket_clients, hconn, hmsg, msgs, sendVars, bcastVars,
                   snapshots, notRegistry>>

\* await websocket.send_json(...), one of the six statements that answer a
\* message: the frame is sent and the loop awaits the next message; or the send
\* raises, which the loop's except Exception catches unless it was raised in
\* the except clause of JSONDecodeError
H_reply(c) ==
    /\ hpc[c] \in ReplyPcs
    /\ MayRun(c)
    /\ hmsg' = [hmsg EXCEPT ![c] = NoMsg]
    /\ \/ /\ hconn[c] = "open"
          /\ HGoto(c, "recv")
          /\ Yields(c)
       \/ /\ HGoto(c, IF hpc[c] = "err_json" THEN "fin_discard" ELSE "err")
          /\ Holds(c)
    /\ UNCHANGED <<websocket_clients, client_topics, hconn, msgs, sendVars,
                   bcastVars, snapshots, notRegistry>>

\* except Exception: await websocket.send_json({"type": "error", ...}): sent,
\* and the loop goes on; or it raises too, the outer except clause fails to
\* send as well, and the handler goes to its finally clause
H_err(c) ==
    /\ hpc[c] = "err"
    /\ MayRun(c)
    /\ \/ /\ hconn[c] = "open"
          /\ HGoto(c, "recv")
          /\ Yields(c)
       \/ /\ HGoto(c, "fin_discard")
          /\ Holds(c)
    /\ UNCHANGED <<websocket_clients, client_topics, hconn, hmsg, msgs, sendVars,
                   bcastVars, snapshots, notRegistry>>

\* finally: unregister_websocket, first line
H_fin_discard(c) ==
    /\ hpc[c] = "fin_discard"
    /\ MayRun(c)
    /\ Holds(c)
    /\ websocket_clients' = Discard(websocket_clients, c)
    /\ HGoto(c, "fin_pop")
    /\ UNCHANGED <<client_topics, hconn, hmsg, msgs, sendVars, bcastVars,
                   snapshots, notRegistry>>

\* ... second line; the handler returns and the server closes the connection
H_fin_pop(c) ==
    /\ hpc[c] = "fin_pop"
    /\ MayRun(c)
    /\ Yields(c)
    /\ client_topics' = Pop(client_topics, c)
    /\ HGoto(c, "done")
    /\ hconn' = [hconn EXCEPT ![c] = IF @ = "open" THEN "closed" ELSE @]
    /\ UNCHANGED <<websocket_clients, hmsg, msgs, sendVars, bcastVars,
                   snapshots, notRegistry>>

analytics_websocket(c) ==
    \/ H_accept(c) \/ H_reg_add(c) \/ H_reg_topics(c) \/ H_recv(c) \/ H_sub(c)
    \/ H_unsub(c) \/ H_reply(c) \/ H_err(c) \/ H_fin_discard(c) \/ H_fin_pop(c)

(* _periodic_broadcast, run by each broadcast thread on its own event loop *)

\* await asyncio.sleep(5) returns; for websocket in list(self._websocket_clients)
B_tick(b) ==
    /\ bpc[b] = "sleep"
    /\ ticks < MaxTicks
    /\ ticks' = ticks + 1
    /\ bpc' = [bpc EXCEPT ![b] = "loop"]
    /\ bleft' = [bleft EXCEPT ![b] = websocket_clients]
    /\ bstart' = [bstart EXCEPT ![b] = websocket_clients]
    /\ battempt' = [battempt EXCEPT ![b] = {}]
    /\ bfailed' = [bfailed EXCEPT ![b] = {}]
    /\ bdata' = [bdata EXCEPT ![b] = None]
    /\ UNCHANGED <<websocket_clients, client_topics, handlerVars, loop_owner,
                   sendVars, bcur, snapshots, notRegistry>>

\* the next client of the list: await self._send_analytics_update(websocket)
B_next(b) ==
    /\ bpc[b] = "loop"
    /\ spc[b] = "idle"
    /\ \E c \in bleft[b] :
          /\ bcur' = [bcur EXCEPT ![b] = c]
          /\ bleft' = [bleft EXCEPT ![b] = @ \ {c}]
          /\ battempt' = [battempt EXCEPT ![b] = @ \cup {c}]
    /\ SGoto(b, "build")
    /\ UNCHANGED <<websocket_clients, client_topics, handlerVars, loop_owner,
                   skey, spay, sread, sdata, bpc, bstart, bfailed, bdata, ticks, snapshots,
                   notRegistry>>

\* the list is exhausted: back to while True and asyncio.sleep(5)
B_end(b) ==
    /\ bpc[b] = "loop"
    /\ spc[b] = "idle"
    /\ bleft[b] = {}
    /\ bpc' = [bpc EXCEPT ![b] = "sleep"]
    /\ bcur' = [bcur EXCEPT ![b] = NoChan]
    /\ bstart' = [bstart EXCEPT ![b] = {}]
    /\ battempt' = [battempt EXCEPT ![b] = {}]
    /\ bfailed' = [bfailed EXCEPT ![b] = {}]
    /\ bdata' = [bdata EXCEPT ![b] = None]
    /\ UNCHANGED <<websocket_clients, client_topics, handlerVars, loop_owner,
                   sendVars, bleft, ticks, snapshots, notRegistry>>

periodic_broadcast(b) == B_tick(b) \/ B_next(b) \/ B_end(b)

(* The registry, the handlers and the broadcast threads; the statistics the
   snapshots carry are left out: no step here writes to the store *)

Next ==
    \/ \E c \in Channels : analytics_websocket(c)
    \/ \E b \in Broadcasters : periodic_broadcast(b)
    \/ \E r \in Runners : send_analytics_update(r)

Spec == Init /\ [][Next]_vars

(* The same, from the state in which the first client has connected, received
   its initial snapshot and subscribed to "chat", and waits in receive_json *)

Subscriber == CHOOSE c \in Channels : TRUE

InitSubscribed ==
    /\ InitService
    /\ now = 0
    /\ websocket_clients = {Subscriber}
    /\ client_topics = Put(EmptyMap, Subscriber, {"chat"})
    /\ hpc = [c \in Channels |-> IF c = Subscriber THEN "recv" ELSE "new"]
    /\ hconn = [c \in Channels |-> IF c = Subscriber THEN "open" ELSE "new"]
    /\ hmsg = [c \in Channels |-> NoMsg]
    /\ msgs = 0
    /\ loop_owner = NoChan
    /\ spc = [r \in Runners |-> "idle"]
    /\ skey = [r \in Runners |-> 0]
    /\ spay = [r \in Runners |-> {}]
    /\ sread = [r \in Runners |-> {}]
    /\ sdata = [r \in Runners |-> 0]
    /\ bpc = [b \in Broadcasters |-> "sleep"]
    /\ bdata = [b \in Broadcasters |-> None]
    /\ bleft = [b \in Broadcasters |-> {}]
    /\ bcur = [b \in Broadcasters |-> NoChan]
    /\ bstart = [b \in Broadcasters |-> {}]
    /\ battempt = [b \in Broadcasters |-> {}]
    /\ bfailed = [b \in Broadcasters |-> {}]
    /\ ticks = 0
    /\ snapshots = [c \in Channels |-> IF c = Subscriber THEN 1 ELSE 0]
    /\ InitThreads

SpecSubscribed == InitSubscribed /\ [][Next]_vars

(* The same, with clients whose topics are any JSON values *)

NextTopics ==
    \/ \E c \in Channels : analytics_websocket(c) \/ H_recv_number(c)
    \/ \E b \in Broadcasters : periodic_broadcast(b)
    \/ \E r \in Runners : send_analytics_update(r)

SpecTopics == InitSubscribed /\ [][NextTopics]_vars

(* The same, with peers that stop reading: send_json is awaited without a
   timeout, so a send to such a peer neither returns nor raises.  The broadcast
   thread is scheduled fairly: whenever it can take a step it takes one. *)

\* await websocket.send_json(data) does not complete; the event loop of the
\* caller goes on with its other tasks
S_stall(r) ==
    /\ spc[r] = "send"
    /\ MayRun(r)
    /\ hconn[Target(r)] = "open"
    /\ SGoto(r, "stalled")
    /\ Yields(r)
    /\ UNCHANGED <<websocket_clients, client_topics, skey, spay, sread, sdata, handlerVars,
                   bcastVars, snapshots, notRegistry>>

NextStall ==
    \/ \E c \in Channels : analytics_websocket(c)
    \/ \E b \in Broadcasters : periodic_broadcast(b)
    \/ \E r \in Runners : send_analytics_update(r)
    \/ \E r \in Runners : S_stall(r)

BroadcastStep == \E b \in Broadcasters : periodic_broadcast(b) \/ send_analytics_update(b)

SpecStall == Init /\ [][NextStall]_vars /\ WF_vars(BroadcastStep)

(* The broadcast thread beside a request thread that writes to the store, from
   a state in which every client has connected and received its initial
   snapshot, has subscribed to nothing or to "chat", and waits in receive_json *)

InitConnected ==
    /\ InitService
    /\ now = 0
    /\ websocket_clients = Channels
    /\ client_topics \in [Channels -> {{}, {"chat"}}]
    /\ hpc = [c \in Channels |-> "recv"]
    /\ hconn = [c \in Channels |-> "open"]
    /\ hmsg = [c \in Channels |-> NoMsg]
    /\ msgs = 0
    /\ loop_owner = NoChan
    /\ spc = [r \in Runners |-> "idle"]
    /\ skey = [r \in Runners |-> 0]
    /\ spay = [r \in Runners |-> {}]
    /\ sread = [r \in Runners |-> {}]
    /\ sdata = [r \in Runners |-> 0]
    /\ bpc = [b \in Broadcasters |-> "sleep"]
    /\ bleft = [b \in Broadcasters |-> {}]
    /\ bcur = [b \in Broadcasters |-> NoChan]
    /\ bstart = [b \in Broadcasters |-> {}]
    /\ battempt = [b \in Broadcasters |-> {}]
    /\ bfailed = [b \in Broadcasters |-> {}]
    /\ bdata = [b \in Broadcasters |-> None]
    /\ ticks = 0
    /\ snapshots = [c \in Channels |-> 1]
    /\ InitThreads

NextSnapshot ==
    \/ \E t \in SeqWriters :
          \/ StartCall(t)
          \/ track_chat_activity(t) \/ track_document_upload(t) \/ track_link_share(t)
    \/ \E b \in Broadcasters : periodic_broadcast(b) \/ send_analytics_update(b)

SpecSnapshot == InitConnected /\ [][NextSnapshot]_vars

(* AnalyticsService() statement by statement, and the wake-ups of the threads
   it starts.  Each thread runs `while True: await asyncio.sleep(interval);
   body`, so in every interval of its task each running thread wakes once and
   runs the body once: cleanup_old_data() for a cleanup thread, one send to
   every registered client for a broadcast thread. *)

IndexOfPc(pc) == CHOOSE i \in DOMAIN CtorOrder : CtorOrder[i].pc = pc

\* self._cleanup_thread / self._broadcast_thread = threading.Thread(...); .start()
I_start ==
    /\ ipc # "done"
    /\ LET i == IndexOfPc(ipc)
       IN /\ threads' = Started(CtorOrder[i].task)
          /\ ipc' = IF i < Len(CtorOrder) THEN CtorOrder[i + 1].pc ELSE "done"
    /\ UNCHANGED <<woke, ran, periods>>
    /\ UNCHANGED <<storeVars, writerVars, readerVars, cleanerVars, usageThreadVars,
                   registryVars>>

\* await asyncio.sleep(...) returns in a running thread, which runs the body
Wake(t) ==
    /\ threads[t] # "none"
    /\ t \notin woke
    /\ woke' = woke \cup {t}
    /\ ran' = [ran EXCEPT ![threads[t]] = @ + 1]
    /\ UNCHANGED <<ipc, threads, periods>>
    /\ UNCHANGED <<storeVars, writerVars, readerVars, cleanerVars, usageThreadVars,
                   registryVars>>

\* an interval of the task ends: every thread running it has woken once
EndInterval(task) ==
    /\ periods[task] < MaxPeriods
    /\ Running(task) # {}
    /\ Running(task) \subseteq woke
    /\ woke' = woke \ Running(task)
    /\ ran' = [ran EXCEPT ![task] = 0]
    /\ periods' = [periods EXCEPT ![task] = @ + 1]
    /\ UNCHANGED <<ipc, threads>>
    /\ UNCHANGED <<storeVars, writerVars, readerVars, cleanerVars, usageThreadVars,
                   registryVars>>

\* AnalyticsService() is entered: the fields are built, no thread started yet
InitConstruct ==
    /\ InitService
    /\ InitRegistry
    /\ now = 0
    /\ ipc = CtorOrder[1].pc
    /\ threads = [t \in ThreadIds |-> "none"]
    /\ woke = {}
    /\ ran = [k \in Tasks |-> 0]
    /\ periods = [k \in Tasks |-> 0]

NextConstruct ==
    \/ I_start
    \/ \E t \in ThreadIds : Wake(t)
    \/ \E task \in Tasks : EndInterval(task)

SpecConstruct == InitConstruct /\ [][NextConstruct]_vars

(* The two periodic tasks beside a request thread that uploads, from the state
   in which the first client has subscribed.  Both threads are scheduled
   fairly: whenever one can take a step it takes one. *)

CleanupStep == \E k \in Cleaners : cleanup_old_data(k)

NextPasses ==
    \/ \E t \in SeqWriters :
          StartUpload(t) \/ track_document_upload(t) \/ track_link_share(t)
    \/ \E k \in Cleaners : cleanup_old_data(k)
    \/ \E b \in Broadcasters : periodic_broadcast(b) \/ send_analytics_update(b)

SpecPasses ==
    InitSubscribed /\ [][NextPasses]_vars /\ WF_vars(CleanupStep) /\ WF_vars(BroadcastStep)

(* get_chat_statistics() called between the calls of one request thread, which
   tracks chat messages with a user, uploads and links, while retention
   windows pass *)

\* stats = get_chat_statistics(): robs[r] is what the call returns
RU_call(r) ==
    /\ Quiet
    /\ calls < MaxCalls
    /\ calls' = calls + 1
    /\ rop' = [rop EXCEPT ![r] = [kind |-> "rollup", scope |-> "none"]]
    /\ robs' = [robs EXCEPT ![r] = ChatRollup]
    /\ rpc' = [rpc EXCEPT ![r] = "rd_ret"]
    /\ UNCHANGED <<storeVars, wpc, wop, wtmp, wref, completed, rlive, cleanerVars>>
    /\ UNCHANGED nonStoreVars

\* a request arrives while no other call is in progress
SeqChat(t) == Quiet /\ StartChat(t)

NextRollup ==
    \/ \E t \in SeqWriters :
          \/ SeqChat(t) \/ SeqCall(t)
          \/ track_chat_activity(t) \/ track_document_upload(t) \/ track_link_share(t)
    \/ \E r \in Readers : RU_call(r) \/ RD_ret(r)
    \/ AdvanceWindow

SpecRollup == Init /\ [][NextRollup]_vars

(* The same, with clients that misuse the protocol *)

NextProtocol ==
    \/ \E c \in Channels : analytics_websocket(c) \/ H_misuse(c)
    \/ \E b \in Broadcasters : periodic_broadcast(b)
    \/ \E r \in Runners : send_analytics_update(r)

SpecProtocol == Init /\ [][NextProtocol]_vars

----------------------------------------------------------------------------
(* Claims about the store under concurrency (SpecStore) *)

WritersIdle == \A t \in Writers : wpc[t] = "idle"

CleanersAsleep == \A k \in Cleaners : kpc[k] = "sleep"

\* get_chat_statistics(s)['message_count'] and its siblings, in a quiescent state
MessageCount(s) == IF s \in DOMAIN chat_stats THEN chat_stats[s].message_count ELSE 0

DocumentCount(s) == IF s \in DOMAIN document_stats THEN document_stats[s].count ELSE 0

LinkCount(s) == IF s \in DOMAIN link_stats THEN link_stats[s].count ELSE 0

\* C1: what a scoped read returns never shows a counter without its history
\* entry or a history entry without its count: the counter it returns equals the
\* length of the history it returns (nothing is pruned or capped within the
\* bounds of SpecStore: the clock stays below the retention window and the
\* histories below 100 entries).
C1_ReadSeesCountWithHistory ==
    \A r \in Readers : rpc[r] = "rd_ret" => robs[r].count = Len(robs[r].list)

\* the calls returned so far, of every kind and scope
CallsReturned ==
    SumOver([p \in Kinds \X Scopes |-> completed[p[1]][p[2]]], Kinds \X Scopes)

\* C2: the track_* calls exclude each other, so no update is lost: when K
\* track_* calls and nothing else (no read, no cleanup pass) have run and
\* returned, the document and link counters of a scope equal the number of
\* track_document_upload and track_link_share calls made on it.
C2_ConcurrentCallsAllCounted ==
    (WritersIdle /\ calls = CallsReturned) =>
        \A s \in Scopes : /\ DocumentCount(s) = completed["doc"][s]
                          /\ LinkCount(s) = completed["link"][s]

\* C3: after N calls of track_chat_activity(s) and any number of reads
\* interleaved with them (no other write; no eviction, which SpecStore never
\* reaches), message_count of s is N.
C3_MessageCountIsNumberOfCalls ==
    (/\ \A t \in Writers : wop[t].kind = "none"
     /\ \A s \in Scopes : completed["doc"][s] = 0 /\ completed["link"][s] = 0
     /\ CleanersAsleep)
    => \A s \in Scopes : MessageCount(s) = completed["chat"][s]

\* C4: after every track_link_share and every cleanup pass (no call in
\* progress), each share_history has at most 100 entries, newest first.
C4_ShareHistorySortedAndCapped ==
    (WritersIdle /\ CleanersAsleep) =>
        \A s \in DOMAIN link_stats :
            /\ Len(link_stats[s].share_history) <= ShareHistoryCap
            /\ IsSortedDesc(link_stats[s].share_history)

----------------------------------------------------------------------------
(* Claims about the usage statistics (SpecUsage) *)

\* C5: immediately after every track_user_activity call (the step that ends
\* it), concurrent_users equals the size of daily_active.
C5_ConcurrentUsersIsDailyActive ==
    [][\A t \in Writers :
         (upc[t] = "ua_store" /\ upc'[t] = "idle")
         => usage_stats'.concurrent_users = Cardinality(usage_stats'.daily_active)]_vars

----------------------------------------------------------------------------
(* Claims about the snapshots and the registry (Spec) *)

\* topic t, compared ignoring case, is a substring of the category name k
ContainsIgnoringCase(k, t) == IsSubstring(Lower(Chars(t)), Lower(Chars(k)))

\* C6: in every payload handed to send_json (initial, on demand or periodic), a
\* subscriber whose topic set is empty gets all five keys, and a subscriber
\* whose topic set is {"chat"} gets no key that does not contain "chat".
C6_FilterByTopics ==
    \A r \in Runners :
        spc[r] = "send" =>
            /\ sread[r] = {{}} => spay[r] = AllKeys
            /\ sread[r] = {{"chat"}} =>
                  \A k \in spay[r] : ContainsIgnoringCase(k, "chat")

\* a broadcast thread is about to send the payload filtered by {"chat"}
C6_Witness ==
    \E b \in Broadcasters :
        spc[b] = "send" /\ sread[b] = {{"chat"}} /\ spay[b] = {"chatStats"}

\* C7: for a subscriber with a non-empty topic set, a category key is delivered
\* if and only if some subscribed topic, compared ignoring case, is a substring
\* of the category name.
C7_MatchIgnoresCase ==
    \A r \in Runners :
        spc[r] = "send" =>
            \A T \in sread[r] :
                (sread[r] = {T} /\ T # {}) =>
                    \A k \in AllKeys :
                        k \in spay[r] <=> \E t \in T : ContainsIgnoringCase(k, t)

\* C8: in a broadcast tick, a failed send ends with the client out of the client
\* set and its topic set dropped, the loop goes on with the clients left, and
\* when the tick ends every client of the list taken at its start has had
\* _send_analytics_update run for it; a sleeping thread can always tick again.
C8_FailureUnregistersAndTickGoesOn ==
    [][\A b \in Broadcasters :
         /\ (spc[b] = "unreg_pop" /\ spc'[b] = "idle") =>
               /\ bcur[b] \notin websocket_clients'
               /\ bcur[b] \notin DOMAIN client_topics'
               /\ bpc'[b] = "loop"
               /\ bleft'[b] = bleft[b]
         /\ (bpc[b] = "loop" /\ bpc'[b] = "sleep") => battempt[b] = bstart[b]
         /\ (bpc[b] = "sleep" /\ ticks < MaxTicks) => ENABLED B_tick(b)]_vars

\* a tick over two clients: the send to the first failed, the second was
\* attempted afterwards and the list is exhausted
C8_Witness ==
    \E b \in Broadcasters :
        /\ bpc[b] = "loop" /\ spc[b] = "idle" /\ bleft[b] = {}
        /\ bstart[b] = Channels
        /\ battempt[b] = Channels
        /\ bfailed[b] # {}
        /\ bcur[b] \notin bfailed[b]
        /\ bfailed[b] \cap websocket_clients = {}

\* C9: at the first broadcast tick after its registration, a subscriber that
\* has asked for nothing has received exactly one snapshot frame.
C9_OneSnapshotBeforeFirstTick ==
    [][\A b \in Broadcasters :
         (bpc[b] = "sleep" /\ bpc'[b] = "loop" /\ ticks = 0) =>
             \A c \in Channels :
                 (/\ c \in websocket_clients
                  /\ c \in DOMAIN client_topics
                  /\ msgs = 0)
                 => snapshots[c] = 1]_vars

Registry == [clients |-> websocket_clients, topics |-> client_topics]

\* C10: unregister_websocket(c) on a channel that is not registered changes
\* nothing, never touches the membership or the topics of another channel, and
\* applied twice gives the registry it gives applied once.
C10_UnregisterIdempotent ==
    \A c \in Channels :
        LET U == unregister_websocket(Registry, c)
        IN  /\ unregister_websocket(U, c) = U
            /\ (c \notin websocket_clients /\ c \notin DOMAIN client_topics)
                  => U = Registry
            /\ U.clients \ {c} = websocket_clients \ {c}
            /\ \A d \in (DOMAIN client_topics) \ {c} :
                  d \in DOMAIN U.topics /\ U.topics[d] = client_topics[d]

\* a handler whose handshake failed has run its finally clause, unregistering a
\* channel that was never registered, while another subscriber holds topics
C10_Witness ==
    \E c, d \in Channels :
        /\ hpc[c] = "done" /\ hconn[c] = "refused"
        /\ d \in websocket_clients
        /\ d \in DOMAIN client_topics
        /\ client_topics[d] # {}

----------------------------------------------------------------------------
(* Claims about cleanup (SpecRetention) *)

Entries(h) == {h[i] : i \in DOMAIN h}

\* every entry of scope s of store m that is newer than the cutoff is in m2
KeptIn(m, m2, field, cutoff) ==
    \A s \in DOMAIN m :
        \A e \in Entries(m[s][field]) :
            e > cutoff => s \in DOMAIN m2 /\ e \in Entries(m2[s][field])

\* no entry of store m is older than the cutoff
NoneOlder(m, field, cutoff) ==
    \A s \in DOMAIN m : \A e \in Entries(m[s][field]) : ~(e < cutoff)

\* C11: no step of a cleanup pass begun before T + W removes a history entry
\* inserted at T, and a pass begun after T + W ends with the entry gone.
C11_RetentionWindow ==
    [][\A k \in Cleaners :
         /\ (kpc[k] # "sleep" /\ kpc'[k] # kpc[k]) =>
               /\ KeptIn(chat_stats, chat_stats', "message_history", kcut[k])
               /\ KeptIn(document_stats, document_stats', "upload_history", kcut[k])
               /\ KeptIn(link_stats, link_stats', "share_history", kcut[k])
         /\ (kpc[k] = "rt_store" /\ kpc'[k] = "sleep") =>
               /\ NoneOlder(chat_stats', "message_history", kcut[k])
               /\ NoneOlder(document_stats', "upload_history", kcut[k])
               /\ NoneOlder(link_stats', "share_history", kcut[k])]_vars


\* ---------------------------------------------------------------------------
\* Eviction of whole scopes by a cleanup pass
\* ---------------------------------------------------------------------------

\* the scopes the pass has to evict: last_activity unset or older than the cutoff
Stale(cutoff) ==
    {s \in DOMAIN chat_stats :
        chat_stats[s].last_activity = None \/ chat_stats[s].last_activity < cutoff}

\* C12: the chat loop of a cleanup pass removes the chat, document and link
\* stats of every scope whose last_activity is unset or older than the cutoff,
\* and keeps every other scope, dropping from its message_history only entries
\* that are not newer than the cutoff.
C12_EvictStaleScopes ==
    [][\A k \in Cleaners :
         (kpc[k] = "chat" /\ kpc'[k] = "doc_next") =>
            /\ \A s \in Stale(kcut[k]) :
                  /\ s \notin DOMAIN chat_stats'
                  /\ s \notin DOMAIN document_stats'
                  /\ s \notin DOMAIN link_stats'
            /\ \A s \in (DOMAIN chat_stats) \ Stale(kcut[k]) :
                  /\ s \in DOMAIN chat_stats'
                  /\ chat_stats'[s].message_history
                        = NewerThan(chat_stats[s].message_history, kcut[k])
                  /\ chat_stats'[s].message_count = chat_stats[s].message_count
                  /\ (s \in DOMAIN document_stats => s \in DOMAIN document_stats')
                  /\ (s \in DOMAIN link_stats => s \in DOMAIN link_stats')]_vars


\* ---------------------------------------------------------------------------
\* Calendar resets of the active-user sets
\* ---------------------------------------------------------------------------

\* C13: each calendar reset fires at most once per boundary.  Every run starts
\* with empty sets at the first hour of a day and lasts less than a day, and
\* on a Monday or a first of the month the call that adds a user has cleared
\* the set first, so every member of weekly_active and of monthly_active was
\* added after the reset of the current week and month: no later step of the
\* same week and month removes it.
C13_ResetOncePerBoundary ==
    [][/\ usage_stats.weekly_active \subseteq usage_stats'.weekly_active
       /\ usage_stats.monthly_active \subseteq usage_stats'.monthly_active]_vars


\* ---------------------------------------------------------------------------
\* Reads and the set of scopes
\* ---------------------------------------------------------------------------

\* C14: no statement of a read operation changes the store; in particular the
\* set of scopes (the rollup's total_chats) is the same before and after it.
C14_ReadsLeaveStoreUnchanged ==
    [][\A r \in Readers :
         rpc'[r] # rpc[r] =>
            /\ chat_stats' = chat_stats
            /\ document_stats' = document_stats
            /\ link_stats' = link_stats
            /\ usage_stats' = usage_stats]_vars


\* ---------------------------------------------------------------------------
\* Queries of scopes never written and of the empty store
\* ---------------------------------------------------------------------------

\* no track_* call has named the scope
NeverWritten(s) ==
    /\ \A k \in Kinds : completed[k][s] = 0
    /\ \A t \in Writers : wop[t].scope # s

\* C15: a scoped query of a scope that was never written returns the zero
\* structure (count 0, empty history), in every state including those after a
\* cleanup pass, and the rollups of an empty store are all zero.
C15_UnknownScopeReadsZero ==
    /\ \A r \in Readers :
          (rpc[r] = "rd_ret" /\ NeverWritten(rop[r].scope)) =>
             /\ robs[r].count = 0
             /\ robs[r].list = <<>>
    /\ chat_stats = EmptyMap =>
          ChatRollup = [total_chats |-> 0, total_messages |-> 0, total_documents |-> 0,
                        total_links |-> 0, active_chats |-> 0,
                        total_active_users |-> 0]
    /\ document_stats = EmptyMap =>
          DocumentRollup = [total_documents |-> 0, total_size |-> 0]
    /\ link_stats = EmptyMap => LinkRollup = [total_links |-> 0]

\* a query of a never-written scope is about to return while another scope
\* holds data
C15_Witness ==
    \E r \in Readers :
       /\ rpc[r] = "rd_ret"
       /\ NeverWritten(rop[r].scope)
       /\ \E s \in DOMAIN chat_stats : chat_stats[s].message_count > 0


\* ---------------------------------------------------------------------------
\* Replies of the message loop
\* ---------------------------------------------------------------------------

KnownTypes == {"ping", "subscribe", "unsubscribe", "refresh"}

\* C16: every message gets the reply the protocol specifies: pong for ping,
\* subscribed / unsubscribed echoing the topics for a list of topics, an error
\* frame for topics that are not a list (the handler leaving the topic set as it
\* was), an error frame naming the type for an unknown type, an error frame for
\* text that is not JSON; and the handler that sent it goes back to
\* receive_json with the connection open and the channel registered as before.
C16_ProtocolReplies ==
    [][\A c \in Channels :
         LET m == hmsg[c]
             f == Frame(hpc[c], m)
         IN /\ (hpc[c] = "recv" /\ hmsg'[c] # hmsg[c] /\ hmsg'[c].type # "refresh") =>
                  hpc'[c] \in ReplyPcs \cup {"sub", "unsub"}
            /\ (hpc[c] = "sub" /\ hpc'[c] # hpc[c]) => hpc'[c] = "subscribed"
            /\ (hpc[c] = "unsub" /\ hpc'[c] # hpc[c]) => hpc'[c] = "unsubscribed"
            /\ (hpc[c] \in ReplyPcs /\ hpc'[c] = "recv") =>
                  /\ m.form = "garbage" => f.type = "error"
                  /\ m.form = "scalar" => f.type = "error"
                  /\ (m.form = "list" /\ m.type = "ping") => f = [type |-> "pong"]
                  /\ (m.form = "list" /\ m.type = "subscribe") =>
                        f = [type |-> "subscribed", topics |-> m.topics]
                  /\ (m.form = "list" /\ m.type = "unsubscribe") =>
                        f = [type |-> "unsubscribed", topics |-> m.topics]
                  /\ (m.form = "list" /\ m.type \notin KnownTypes) =>
                        f.type = "error" /\ f.message[2] = m.type
                  /\ hconn'[c] = "open"
                  /\ c \in websocket_clients' <=> c \in websocket_clients
            /\ (hpc'[c] # hpc[c] /\ "scalar" \in {hmsg[c].form, hmsg'[c].form}) =>
                  /\ c \in DOMAIN client_topics' <=> c \in DOMAIN client_topics
                  /\ c \in DOMAIN client_topics => client_topics'[c] = client_topics[c]]_vars

\* a registered client on an open connection is about to be told that its
\* topics are not a list, and another that its message type is unknown
C16_Witness ==
    \E c \in Channels :
       /\ hpc[c] \in {"err_list", "err_unknown", "err_json"}
       /\ hconn[c] = "open"
       /\ c \in websocket_clients


\* ---------------------------------------------------------------------------
\* Snapshot on demand
\* ---------------------------------------------------------------------------

\* the handler of c is in _send_analytics_update because of a refresh message
Refreshing(c) == hpc[c] = "snap" /\ hmsg[c].type = "refresh"

\* C17: the frame sent in answer to a refresh message holds all five category
\* keys whatever the topic set of the client, and the handler sends nothing
\* else before it waits for the next message.
C17_RefreshUnfiltered ==
    [][\A c \in Channels :
         (Refreshing(c) /\ spc[c] = "send" /\ snapshots'[c] = snapshots[c] + 1) =>
            /\ spay[c] = AllKeys
            /\ hpc'[c] = "recv"]_vars


\* ---------------------------------------------------------------------------
\* A subscriber that stops reading
\* ---------------------------------------------------------------------------

\* C18: a send that does not complete does not hold up the tick for ever: every
\* subscriber still on the list of the tick gets its turn, and the subscriber
\* whose send stalled ends up unregistered.
C18_StalledSendBounded ==
    \A b \in Broadcasters, c \in Channels :
        /\ (bpc[b] = "loop" /\ c \in bleft[b]) ~> (c \notin bleft[b])
        /\ (spc[b] = "stalled" /\ bcur[b] = c) ~> (c \notin websocket_clients)


\* ---------------------------------------------------------------------------
\* The snapshot of a tick
\* ---------------------------------------------------------------------------

\* C19: every payload of a tick is a projection of one snapshot of the store:
\* when all subscribers have the same topic set, the chatStats a broadcast
\* thread delivers to a subscriber are the chatStats it delivered earlier in the
\* same tick, whatever the writers did meanwhile.
C19_OneSnapshotPerTick ==
    [][\A b \in Broadcasters :
         (/\ spc[b] = "send"
          /\ snapshots'[bcur[b]] = snapshots[bcur[b]] + 1
          /\ "chatStats" \in spay[b]
          /\ \A c \in DOMAIN client_topics : client_topics[c] = TopicsRead(bcur[b])
          /\ bdata[b] # None) => sdata[b] = bdata[b]]_vars


\* ---------------------------------------------------------------------------
\* The periodic tasks the constructor starts
\* ---------------------------------------------------------------------------

\* C20: once AnalyticsService() has returned, exactly one thread runs the
\* cleanup task and exactly one the broadcast task, and in no interval of a
\* task is its body run more than once: at most one periodic frame for each
\* subscriber per broadcast interval, one cleanup_old_data() per cleanup
\* interval.
C20_TwoPeriodicTasks ==
    /\ ipc = "done" =>
          /\ Cardinality(Running("cleanup")) = 1
          /\ Cardinality(Running("broadcast")) = 1
    /\ \A task \in Tasks : ran[task] <= 1


\* ---------------------------------------------------------------------------
\* The periodic tasks after a failed pass
\* ---------------------------------------------------------------------------

\* C21: a pass of the cleanup task or of the broadcast task, failed or not,
\* ends with the task asleep again, and an asleep task starts its next pass
\* (here: as long as the bounds on passes allow one and the lock is free).
C21_TasksSurviveFailures ==
    /\ \A k \in Cleaners : (kpc[k] # "sleep") ~> (kpc[k] = "sleep")
    /\ \A b \in Broadcasters : (bpc[b] # "sleep") ~> (bpc[b] = "sleep")
    /\ [](\A k \in Cleaners :
            (kpc[k] = "sleep" /\ calls < MaxCalls /\ update_lock = "free")
               => ENABLED K_lock(k))
    /\ [](\A b \in Broadcasters :
            (bpc[b] = "sleep" /\ ticks < MaxTicks) => ENABLED B_tick(b))

\* the loop over the document records is about to raise RuntimeError (a
\* request thread has added a record since the loop began) in a tick in which
\* a send has failed
C21_Witness ==
    /\ \E k \in Cleaners :
          kpc[k] = "doc_next" /\ Cardinality(DOMAIN document_stats) # ksize[k]
    /\ \E b \in Broadcasters : bfailed[b] # {}


\* ---------------------------------------------------------------------------
\* Ratios with an empty denominator
\* ---------------------------------------------------------------------------

\* C22: no ratio of the statistics fails with a division by zero: a retention
\* ratio whose active set is empty is 0.
C22_EmptyDenominatorYieldsZero ==
    \A r \in Readers : rpc[r] # "zero_division"


\* ---------------------------------------------------------------------------
\* The rollup of the chat statistics
\* ---------------------------------------------------------------------------

\* the sum of a counter over the scopes, as the size of a disjoint union
RefTotal(field) ==
    Cardinality({x \in (DOMAIN chat_stats) \X (1..MaxCalls) :
                    x[2] <= chat_stats[x[1]][field]})

\* the aggregation the rollup is compared with
RefRollup ==
    [total_chats |-> Cardinality(DOMAIN chat_stats),
     total_messages |-> RefTotal("message_count"),
     total_documents |-> RefTotal("document_count"),
     total_links |-> RefTotal("link_count"),
     active_chats |->
        Cardinality({s \in DOMAIN chat_stats :
                        /\ chat_stats[s].last_activity # None
                        /\ now - chat_stats[s].last_activity < 7 * HoursPerDay}),
     total_active_users |->
        Cardinality({u \in Users : \E s \in DOMAIN chat_stats :
                                      u \in chat_stats[s].active_users})]

\* the store after one track_chat_activity("c1", user_id = "u1") and nothing else
OneChatByU1 ==
    /\ Quiet
    /\ DOMAIN chat_stats = {"c1"}
    /\ chat_stats["c1"].active_users = {"u1"}
    /\ \A k \in Kinds, s \in Scopes :
          completed[k][s] = IF k = "chat" /\ s = "c1" THEN 1 ELSE 0

\* C23: what get_chat_statistics() returns is the aggregation over the scopes
\* of the store: their number, the sums of the three counters, the number of
\* scopes active within 7 days and the size of the union of the active users.
\* After one track_chat_activity("c1", user_id = "u1") on an empty store the
\* scoped view has message_count 1 and active_users_count 1.
C23_RollupIsAggregation ==
    /\ \A r \in Readers :
          (rpc[r] = "rd_ret" /\ rop[r].kind = "rollup") => robs[r] = RefRollup
    /\ OneChatByU1 =>
          /\ ChatView("c1") = [message_count |-> 1, active_users_count |-> 1]
          /\ ChatRollup.total_chats = 1
          /\ ChatRollup.total_messages = 1
          /\ ChatRollup.total_active_users = 1

\* a rollup is returned for a store with two scopes that share a user, one of
\* them inactive for more than 7 days
C23_Witness ==
    /\ \E r \in Readers : rpc[r] = "rd_ret" /\ rop[r].kind = "rollup"
    /\ DOMAIN chat_stats = Scopes
    /\ \E u \in Users : \A s \in Scopes : u \in chat_stats[s].active_users
    /\ \E s \in Scopes : EverActive(s) /\ ~IsActive(s)


\* ---------------------------------------------------------------------------
\* The cap on response_times
\* ---------------------------------------------------------------------------

\* the calls whose entries a list of response times holds
Held(lst) == {lst[i].response_time : i \in DOMAIN lst}

\* C24: when a track_response_time call returns, response_times holds at most
\* the cap, in insertion order, and the entry the call appended is among them
\* unless the list is full of later ones.
C24_ResponseTimesCapped ==
    [][\A t \in Writers :
         (upc[t] \in {"rt_len", "rt_store"} /\ upc'[t] = "idle") =>
            LET lst == usage_stats'.response_times
            IN /\ Len(lst) <= ResponseCap
               /\ \A i, j \in DOMAIN lst :
                     i < j => lst[i].response_time < lst[j].response_time
               /\ \/ utmp[t] \in Held(lst)
                  \/ Cardinality({x \in Held(lst) : x > utmp[t]}) >= ResponseCap]_vars


\* ---------------------------------------------------------------------------
\* The operations of the registry
\* ---------------------------------------------------------------------------

\* the topic sets of the channels other than c are what they were
OthersKeep(c) ==
    \A d \in Channels \ {c} :
        /\ d \in DOMAIN client_topics <=> d \in DOMAIN client_topics'
        /\ d \in DOMAIN client_topics => client_topics'[d] = client_topics[d]

Registered(c) == c \in websocket_clients /\ c \in DOMAIN client_topics

\* C25: register leaves the channel with an empty topic set; subscribe of a
\* registered channel makes its set the union of the set and the topics named,
\* unsubscribe the difference, which is empty (all categories are received)
\* when every subscribed topic was named; no other channel's set changes.
C25_RegistryOperations ==
    [][\A c \in Channels :
         LET T == {hmsg[c].topics[i] : i \in DOMAIN hmsg[c].topics}
         IN /\ (hpc[c] = "reg_topics" /\ hpc'[c] # hpc[c]) =>
                  /\ c \in DOMAIN client_topics' /\ client_topics'[c] = {}
                  /\ OthersKeep(c)
            /\ (hpc[c] = "sub" /\ hpc'[c] # hpc[c] /\ Registered(c)) =>
                  /\ c \in DOMAIN client_topics'
                  /\ \A x \in client_topics'[c] : x \in client_topics[c] \/ x \in T
                  /\ \A x \in client_topics[c] \cup T : x \in client_topics'[c]
                  /\ OthersKeep(c)
            /\ (hpc[c] = "unsub" /\ hpc'[c] # hpc[c] /\ Registered(c)) =>
                  /\ c \in DOMAIN client_topics'
                  /\ \A x \in client_topics'[c] : x \in client_topics[c] /\ x \notin T
                  /\ \A x \in client_topics[c] : x \in T \/ x \in client_topics'[c]
                  /\ (client_topics[c] \subseteq T) => TopicsRead(c)' = {}
                  /\ OthersKeep(c)]_vars

\* the subscriber of "chat" has subscribed to a second topic while the other
\* channel is registered
C25_Witness ==
    /\ hpc[Subscriber] = "subscribed"
    /\ Registered(Subscriber)
    /\ Cardinality(client_topics[Subscriber]) = 2
    /\ \E d \in Channels \ {Subscriber} : Registered(d)


\* ---------------------------------------------------------------------------
\* The effect of track_document_upload
\* ---------------------------------------------------------------------------

\* the file type and the file size of the uploads
TheType == CHOOSE ft \in FileTypes : TRUE
TheSize == CHOOSE fs \in FileSizes : TRUE

\* C26: every track_document_upload call goes on to its return, and after n
\* calls for a scope, whether the scope existed before the first of them or
\* not, the chat scope's document_count and the document scope's count are n,
\* total_size is the sum of the n file sizes, types[file_type] is n and
\* upload_history has n entries.
C26_UploadCounts ==
    /\ \A t \in Writers :
          wpc[t] # "idle" =>
             ENABLED (track_chat_activity(t) \/ track_document_upload(t)
                         \/ track_link_share(t))
    /\ Quiet =>
          \A s \in Scopes :
             LET n == completed["doc"][s]
             IN n > 0 =>
                   /\ s \in DOMAIN chat_stats /\ s \in DOMAIN document_stats
                   /\ chat_stats[s].document_count = n
                   /\ document_stats[s].count = n
                   /\ document_stats[s].total_size = n * TheSize
                   /\ DOMAIN document_stats[s].types = {TheType}
                   /\ document_stats[s].types[TheType] = n
                   /\ Len(document_stats[s].upload_history) = n

\* two uploads have returned for a scope that a chat message had created, and
\* one for a scope that did not exist
C26_Witness ==
    /\ Quiet
    /\ \E s \in Scopes :
          /\ completed["doc"][s] = 2
          /\ completed["chat"][s] = 1
          /\ chat_stats[s].message_history # <<>>
          /\ chat_stats[s].last_activity <= document_stats[s].upload_history[1]


\* ---------------------------------------------------------------------------
\* The effect of track_user_activity
\* ---------------------------------------------------------------------------

\* C27: when track_user_activity(user_id) returns, user_id is in daily_active,
\* weekly_active and monthly_active (the clears of a Monday and of a first of
\* the month come before the adds), and the call has added exactly 1 to the
\* peak_hours slot of the hour of the call and nothing to the other 23.
C27_ActivityEffect ==
    [][\A t \in Writers :
         /\ (upc[t] = "ua_store" /\ upc'[t] = "idle") =>
               /\ uarg[t] \in usage_stats'.daily_active
               /\ uarg[t] \in usage_stats'.weekly_active
               /\ uarg[t] \in usage_stats'.monthly_active
         /\ (upc[t] = "ua_peak_write" /\ upc'[t] # upc[t]) =>
               \A h \in 0..(HoursPerDay - 1) :
                  usage_stats'.peak_hours[h] =
                     usage_stats.peak_hours[h] + (IF h = now % HoursPerDay THEN 1 ELSE 0)
         /\ (upc[t] \notin {"idle", "ua_peak_write"} /\ upc'[t] # upc[t]) =>
               usage_stats'.peak_hours = usage_stats.peak_hours]_vars

\* a call made on a Monday that is the first of the month has returned; the
\* week's and the month's sets held another user before it and hold the
\* caller's user only
C27_Witness ==
    /\ Quiet
    /\ WeekdayOf(now) = 0 /\ DayOfMonth(now) = 1
    /\ Cardinality(usage_stats.daily_active) = 2
    /\ Cardinality(usage_stats.weekly_active) = 1
    /\ usage_stats.weekly_active = usage_stats.monthly_active
    /\ usage_stats.peak_hours[HourOf(now)] >= 1


\* ---------------------------------------------------------------------------
\* Serialization
\* ---------------------------------------------------------------------------

\* no set, defaultdict or datetime at any depth of a value
RECURSIVE Normalized(_)
Normalized(obj) ==
    CASE PyType(obj) \in {"set", "defaultdict", "datetime"} -> FALSE
      [] PyType(obj) = "dict" -> \A k \in DOMAIN Content(obj) : Normalized(Content(obj)[k])
      [] PyType(obj) = "list" -> \A i \in DOMAIN Content(obj) : Normalized(Content(obj)[i])
      [] OTHER -> TRUE

FirstSeen(items, k) ==
    CHOOSE i \in DOMAIN items :
        items[i][1] = k /\ \A j \in 1..(i - 1) : items[j][1] # k

\* C29: a top-N result has at most N items, in descending order of count, none
\* with a smaller count than an item left out, and items of equal count in the
\* order in which the input first has them.
C29_TopItemsOrdered ==
    \A r \in Readers :
        (rop[r].kind = "top" /\ rpc[r] = "rd_ret") =>
            LET items == robs[r].items
                out == robs[r].out
            IN /\ Len(out) <= TopLimit
               /\ \A i, j \in DOMAIN out : i < j => out[i][2] >= out[j][2]
               /\ \A i \in DOMAIN items :
                     items[i][1] \notin KeysOf(out) =>
                         \A j \in DOMAIN out : out[j][2] >= items[i][2]
               /\ \A i, j \in DOMAIN out :
                     (i < j /\ out[i][2] = out[j][2]) =>
                         FirstSeen(items, out[i][1]) < FirstSeen(items, out[j][1])


\* ---------------------------------------------------------------------------
\* Registry consistency
\* ---------------------------------------------------------------------------

\* a routine is between the two lines of register_websocket or of
\* unregister_websocket for channel c
MidRegistration(c) ==
    \/ hpc[c] \in {"reg_topics", "fin_pop"}
    \/ \E r \in Runners : spc[r] = "unreg_pop" /\ Target(r) = c

\* C30: the channels with a topic-set entry are the registered channels; no
\* unregistered channel keeps or regains an entry.  A channel whose
\* registration or unregistration is between its two lines is left out.
C30_RegistryConsistent ==
    \A c \in Channels :
        ~MidRegistration(c) =>
            (c \in DOMAIN client_topics <=> c \in websocket_clients)


\* ---------------------------------------------------------------------------
\* The active-user sets between calls
\* ---------------------------------------------------------------------------

\* C31: whenever no call and no cleanup pass is in progress, daily_active is a
\* subset of weekly_active and weekly_active a subset of monthly_active, so the
\* three counts get_usage_statistics reports are in ascending order.
C31_ActiveSetsNested ==
    Quiet =>
        /\ usage_stats.daily_active \subseteq usage_stats.weekly_active
        /\ usage_stats.weekly_active \subseteq usage_stats.monthly_active
        /\ Cardinality(usage_stats.daily_active)
              <= Cardinality(usage_stats.weekly_active)
        /\ Cardinality(usage_stats.weekly_active)
              <= Cardinality(usage_stats.monthly_active)

\* C32: whenever no call and no cleanup pass is in progress, the concurrent_users
\* that get_usage_statistics returns is the size of daily_active, also after a
\* cleanup pass at midnight has cleared the set.
C32_ConcurrentUsersFollowsDaily ==
    Quiet => usage_stats.concurrent_users = Cardinality(usage_stats.daily_active)


\* ---------------------------------------------------------------------------
\* Counts kept in two structures
\* ---------------------------------------------------------------------------

\* a counter of a scope's record, 0 for a scope the store does not hold
CounterOf(store, s, field) == IF s \in DOMAIN store THEN store[s][field] ELSE 0

\* the sum of a scope's per-type or per-domain counters
TallyOf(store, s, field) ==
    IF s \in DOMAIN store
    THEN SumOver(store[s][field], DOMAIN store[s][field])
    ELSE 0

\* C33: whenever no call and no cleanup pass is in progress, for every scope the
\* chat record's document_count is the document record's count and the sum of
\* its types, the chat record's link_count is the link record's count and the
\* sum of its domains, and the rollups report the same totals.
C33_CountsAgree ==
    Quiet =>
        /\ \A s \in Scopes :
              /\ CounterOf(chat_stats, s, "document_count")
                    = CounterOf(document_stats, s, "count")
              /\ CounterOf(document_stats, s, "count") = TallyOf(document_stats, s, "types")
              /\ CounterOf(chat_stats, s, "link_count") = CounterOf(link_stats, s, "count")
              /\ CounterOf(link_stats, s, "count") = TallyOf(link_stats, s, "domains")
        /\ ChatRollup.total_documents = DocumentRollup.total_documents
        /\ ChatRollup.total_links = LinkRollup.total_links


\* ---------------------------------------------------------------------------
\* What a cleanup pass may remove
\* ---------------------------------------------------------------------------

\* the entries of a scope's history that are newer than the cutoff, as a scoped
\* query would return them
YoungEntries(store, s, field, cutoff) ==
    IF s \in DOMAIN store
    THEN {store[s][field][i] : i \in {j \in DOMAIN store[s][field] :
                                          store[s][field][j] > cutoff}}
    ELSE {}

\* C34: no step of a cleanup pass removes an upload_history or share_history
\* entry whose timestamp is after the pass's cutoff, whatever the last_activity
\* of the scope.
C34_YoungEntriesSurvive ==
    [][\A k \in Cleaners :
         (kpc[k] # "sleep" /\ kpc'[k] # kpc[k]) =>
            \A s \in Scopes :
               /\ YoungEntries(document_stats, s, "upload_history", kcut[k])
                     \subseteq YoungEntries(document_stats', s, "upload_history", kcut[k])
               /\ YoungEntries(link_stats, s, "share_history", kcut[k])
                     \subseteq YoungEntries(link_stats', s, "share_history", kcut[k])]_vars


\* ---------------------------------------------------------------------------
\* A cleanup pass beside a writer
\* ---------------------------------------------------------------------------

\* the number of entries a scope's history holds
HistoryLen(store, s, field) == IF s \in DOMAIN store THEN Len(store[s][field]) ELSE 0

\* C35: a cleanup pass that overlaps track_document_upload or track_link_share
\* calls goes through all of its steps (it goes back to sleep only from its last
\* one), and once the pass and the calls have finished the histories hold one
\* entry for every call that returned, all of them being newer than the cutoff.
C35_NoLossNoAbort ==
    [][/\ \A k \in Cleaners :
             (kpc[k] # "sleep" /\ kpc'[k] = "sleep") => kpc[k] = "rt_store"
       /\ Quiet' =>
             \A s \in Scopes :
                /\ HistoryLen(document_stats', s, "upload_history")
                      = completed'["doc"][s]
                /\ HistoryLen(link_stats', s, "share_history")
                      = completed'["link"][s]]_vars


\* ---------------------------------------------------------------------------
\* Top-N counts across scopes
\* ---------------------------------------------------------------------------

\* the number of events counted for key k in all scopes together
RECURSIVE TotalOf(_, _)
TotalOf(items, k) ==
    IF items = <<>> THEN 0
    ELSE (IF Head(items)[1] = k THEN Head(items)[2] ELSE 0) + TotalOf(Tail(items), k)

\* C36: the count a top-N result reports for a key is the total of that key
\* over all scopes, and the keys reported are those with the highest totals:
\* a key is left out only when the result is full, and then its total is not
\* above that of any key reported.
C36_TopCountsAreTotals ==
    \A r \in Readers :
        (rop[r].kind = "top" /\ rpc[r] = "rd_ret") =>
            LET items == robs[r].items
                out == robs[r].out
            IN /\ \A j \in DOMAIN out : out[j][2] = TotalOf(items, out[j][1])
               /\ \A k \in KeysOf(items) \ KeysOf(out) :
                     /\ Len(out) = TopLimit
                     /\ \A j \in DOMAIN out :
                           TotalOf(items, out[j][1]) >= TotalOf(items, k)


\* ---------------------------------------------------------------------------
\* The end of a connection handler
\* ---------------------------------------------------------------------------

\* C37: once a connection handler has returned, for whatever reason, its
\* channel is not in the registered set; a broadcast tick that starts afterwards
\* does not have the channel in its list, and a tick sends to the channels of
\* its list only.
C37_ReturnedHandlerUnregistered ==
    [][/\ \A c \in Channels : hpc'[c] = "done" => c \notin websocket_clients'
       /\ \A b \in Broadcasters :
             /\ (bpc[b] = "sleep" /\ bpc'[b] = "loop") =>
                   \A c \in Channels : hpc[c] = "done" => c \notin bleft'[b]
             /\ (bcur'[b] # bcur[b] /\ bcur'[b] # NoChan) => bcur'[b] \in bstart[b]
             /\ bleft'[b] \subseteq bstart'[b]]_vars

\* a channel that was registered and received its snapshot has gone and its
\* handler has returned; a tick that began after that sends to the other channel
C37_Witness ==
    \E c \in Channels, b \in Broadcasters :
        /\ hpc[c] = "done" /\ snapshots[c] >= 1
        /\ bpc[b] = "loop"
        /\ bstart[b] = Channels \ {c}
        /\ bcur[b] \in bstart[b]
        /\ spc[b] # "idle"


\* ---------------------------------------------------------------------------
\* A subscribe the server accepts
\* ---------------------------------------------------------------------------

\* C38: a subscribe with a list of topics, whatever its elements, puts the
\* topics into the filter set of a registered channel and leaves the channel
\* registered, and afterwards the filter of _send_analytics_update always goes on
\* to the send, so that the subscriber is dropped by a failed send only.
C38_AcceptedSubscribeKeepsSubscriber ==
    [][/\ \A c \in Channels :
             (hpc[c] = "sub" /\ hpc'[c] = "subscribed") =>
                /\ c \in DOMAIN client_topics =>
                      AsSet(hmsg[c].topics) \subseteq client_topics'[c]
                /\ websocket_clients' = websocket_clients
       /\ \A r \in Runners :
             (spc[r] \in {"if", "key"} /\ spc'[r] # spc[r]) => spc'[r] \in {"key", "send"}]_vars

====
